---- MODULE Spec2Model ----
(***************************************************************************)
(* The native PDF worker of mcomix (archive/native_pdf/child.py): page     *)
(* classification, the listing generator iter_contents, and extract_file   *)
(* with its two paths (extract_xref, render_page); the streams the manager *)
(* serves from that worker (archive/native_pdf/manager.py); and the        *)
(* session facade FitzArchive with its lazily opened manager and server    *)
(* process (archive/native_pdf/parent.py), as one calling thread uses it   *)
(* and as several threads share it.                                        *)
(*                                                                         *)
(* File names are sequences of one-character strings, so that formatting   *)
(* ("page{N:04}", "{xref:04}"), splitting on the delimiter, slicing and    *)
(* int() are computed the way the Python code computes them.               *)
(***************************************************************************)
EXTENDS Integers, Sequences, FiniteSets, TLC

VARIABLES
    doc,          \* the PDF: a sequence of pages (fitz.Document), index 1 = page_num 0
    readable,     \* fitz.open(filename) succeeds on the file as it is now
    prefs,        \* prefs['auto rotate from exif']
    gen,          \* the iter_contents generator: "none", "running", "done"
    pg,           \* the generator's loop variable: next page_num to classify
    extension,    \* FitzWorker._extension (None until probed)
    complex_doc,  \* FitzWorker._complex_doc
    yielded,      \* the file names the generator has yielded so far, in order
    probed,       \* the page_num arguments _check_image_type was called with
    dirs,         \* directories that exist in the file system
    files,        \* the files in the file system: path -> content
    lastCall,     \* what the last extract_file call did
    nExtract,     \* the number of extract_file calls made
    facade,       \* FitzArchive: "unbuilt" before __init__ has run, then "built"
    has_mgr,      \* hasattr(self, '_mgr')
    mgrProc,      \* the server process of self._mgr's FitzManager (0: none)
    procs,        \* the server processes started so far: "alive", "dead", "shutdown"
    genProc,      \* the process that serves the caller's listing stream (0: none)
    xgen,         \* the caller's extract_pages stream
    lastOp,       \* the last call made by the caller and how it ended
    attr,         \* self._mgr as several threads see it: a wrangler (0: no attribute)
    wranglers,    \* FitzProcessWrangler objects: thread -> process of its manager (0: none)
    thread,       \* each calling thread: where it is in mgr / _open_doc / close
    served        \* per server process: the threads whose calls it has served

workerVars == <<doc, readable, prefs, gen, pg, extension, complex_doc, yielded, probed,
                dirs, files, lastCall, nExtract>>

sessionVars == <<facade, has_mgr, mgrProc, procs, genProc, xgen, lastOp>>

threadVars == <<attr, wranglers, thread, served>>

vars == <<doc, readable, prefs, gen, pg, extension, complex_doc, yielded, probed,
          dirs, files, lastCall, nExtract,
          facade, has_mgr, mgrProc, procs, genProc, xgen, lastOp,
          attr, wranglers, thread, served>>

(***************************************************************************)
(* Bounds of the model.                                                    *)
(***************************************************************************)
MaxPages == 3

MaxExtract == 1

MaxThreads == 2

MaxThreadProcs == 3

(***************************************************************************)
(* Strings.                                                                *)
(***************************************************************************)
\* None, where a string is expected (FitzWorker._extension)
None == <<>>

\* No exception raised.
NoError == "NoError"

DIGITS == <<"0", "1", "2", "3", "4", "5", "6", "7", "8", "9">>

IsDigit(c) == \E d \in 1..10 : DIGITS[d] = c

DigitVal(c) == (CHOOSE d \in 1..10 : DIGITS[d] = c) - 1

\* str(n) for n >= 0
RECURSIVE Decimal(_)
Decimal(n) == IF n < 10 THEN <<DIGITS[n + 1]>>
              ELSE Append(Decimal(n \div 10), DIGITS[(n % 10) + 1])

RECURSIVE ZeroPad(_, _)
ZeroPad(s, width) == IF Len(s) >= width THEN s ELSE ZeroPad(<<"0">> \o s, width)

\* The format spec "04": zero padded to a minimum width of 4, the sign
\* (counted in the width) before the zeros; wider numbers are not cut.
Format04(n) == IF n < 0 THEN <<"-">> \o ZeroPad(Decimal(-n), 3)
               ELSE ZeroPad(Decimal(n), 4)

RECURSIVE DigitsValue(_)
DigitsValue(s) == IF s = <<>> THEN 0
                  ELSE 10 * DigitsValue(SubSeq(s, 1, Len(s) - 1)) + DigitVal(s[Len(s)])

AllDigits(s) == s # <<>> /\ \A i \in 1..Len(s) : IsDigit(s[i])

\* int(s): [ok |-> FALSE] stands for the ValueError int() raises.
ParseInt(s) ==
    IF AllDigits(s) THEN [ok |-> TRUE, val |-> DigitsValue(s)]
    ELSE IF s # <<>> /\ s[1] = "-" /\ AllDigits(Tail(s))
         THEN [ok |-> TRUE, val |-> 0 - DigitsValue(Tail(s))]
    ELSE IF s # <<>> /\ s[1] = "+" /\ AllDigits(Tail(s))
         THEN [ok |-> TRUE, val |-> DigitsValue(Tail(s))]
    ELSE [ok |-> FALSE, val |-> 0]

\* The positions at which sub occurs in s.
Occurrences(s, sub) ==
    {i \in 1..(Len(s) - Len(sub) + 1) : SubSeq(s, i, i + Len(sub) - 1) = sub}

\* sub in s
Contains(s, sub) == Occurrences(s, sub) # {}

\* s.startswith(prefix)
StartsWith(s, prefix) == Len(s) >= Len(prefix) /\ SubSeq(s, 1, Len(prefix)) = prefix

Min(a, b) == IF a < b THEN a ELSE b

Max(a, b) == IF a > b THEN a ELSE b

\* s[-n:]
LastChars(s, n) == SubSeq(s, Max(1, Len(s) - n + 1), Len(s))

\* s[:n]
FirstChars(s, n) == SubSeq(s, 1, Min(n, Len(s)))

\* s[a:b], 0-based, a and b >= 0
Slice(s, a, b) == SubSeq(s, a + 1, Min(b, Len(s)))

PAGE == <<"p", "a", "g", "e">>

DOT == <<".">>

PNG == <<"p", "n", "g">>

JPG == <<"j", "p", "g">>

XREF_DELIMITER == <<"_", "m", "c", "m", "x", "r", "e", "f">>

(***************************************************************************)
(* The document.  A page carries what the fitz calls of child.py read:     *)
(*   images    the xrefs of page.get_images() / doc.get_page_images()      *)
(*   textLen   len(page.get_text())                                        *)
(*   nInfo     len(page.get_image_info())                                  *)
(*   imgArea   the area of the irect of image_info[0]['bbox']              *)
(*   pageArea  the area of the irect of page.mediabox                      *)
(*   rotation  page.rotation                                               *)
(*   profile   what fitz.image_profile(doc.xref_stream_raw(xref)) does for *)
(*             the page's first image: an 'ext' value, "noext" (a dict     *)
(*             without 'ext'), "empty" (an empty dict) or the exception    *)
(*             it raises                                                   *)
(*   fault     the exception fitz raises when the page is loaded           *)
(*             (self.doc[page_num]) or its contents are read, NoError for  *)
(*             a sound page                                                *)
(***************************************************************************)
Profiles == {"jpg", "png", "noext", "empty", "AttributeError", "TypeError", "ValueError"}

Kind(nImages, textLen, nInfo, imgArea, rotation, profile) ==
    [nImages |-> nImages, textLen |-> textLen, nInfo |-> nInfo, imgArea |-> imgArea,
     pageArea |-> 100, rotation |-> rotation, profile |-> profile,
     fault |-> NoError]

FullPage(rotation, profile) == Kind(1, 0, 1, 100, rotation, profile)

\* The page of that kind which fitz fails to read.
Broken(kind) == [kind EXCEPT !.fault = "RuntimeError"]

\* Every combination of what the classification reads.
ClassKinds ==
    {Kind(n, t, i, a, 0, "jpg") :
        n \in 0..2, t \in {0, 3}, i \in 0..2, a \in {0, 40, 95, 96, 100, 104, 105}}

\* No placement entry, no bounding box.
ClassKindsOk == {k \in ClassKinds : (k.nInfo = 0) <=> (k.imgArea = 0)}

ProbeKinds == {FullPage(0, p) : p \in Profiles}

RotKinds == {FullPage(r, "jpg") : r \in {0, 90, 180, 270}}

\* The pages of the documents of more than one page.
CoreKinds ==
    {FullPage(0, "jpg"), FullPage(0, "png"), FullPage(0, "TypeError"),
     Kind(1, 3, 1, 100, 0, "jpg"), Kind(1, 0, 1, 40, 0, "jpg")}

\* A page of the given area with one image of the given area.
AreaKind(page_area, img_area) ==
    [FullPage(0, "jpg") EXCEPT !.pageArea = page_area, !.imgArea = img_area]

\* Pages of no area, and pages of another area than 100 whose image is at
\* and next to 5% smaller and larger.
AreaKinds ==
    {AreaKind(0, 0), AreaKind(0, 1),
     AreaKind(140, 133), AreaKind(140, 134), AreaKind(140, 146), AreaKind(140, 147)}

\* Documents of pages that have one image and no text and fail the test of
\* _can_extract_image: an image 5% smaller than the page, an image 5%
\* larger, a page of no area, an image placed twice, an image of 40% of
\* the page; and full-page images after them.
BoundaryKinds ==
    {<<Kind(1, 0, 1, 95, 0, "jpg"), Kind(1, 0, 1, 105, 0, "jpg"), AreaKind(0, 0)>>,
     <<AreaKind(140, 147), AreaKind(0, 0), FullPage(0, "jpg")>>,
     <<Kind(1, 0, 2, 100, 0, "jpg"), Kind(1, 0, 1, 40, 0, "jpg"), FullPage(0, "png")>>}

KindSeqs ==
    {<<k>> : k \in ClassKindsOk \cup ProbeKinds \cup RotKinds}
    \cup UNION {[1..n -> CoreKinds] : n \in 0..MaxPages}

\* The xref of the first image of page i (1-based): xrefs are unique within
\* a document, and take fewer than four, four, and more than four digits.
FirstXref(i) == IF i = 1 THEN 42 ELSE IF i = 2 THEN 9999 ELSE 12345 + 2 * (i - 3)

MakeDoc(kinds) ==
    [i \in 1..Len(kinds) |->
        [images   |-> [j \in 1..kinds[i].nImages |-> FirstXref(i) + (j - 1)],
         textLen  |-> kinds[i].textLen,
         nInfo    |-> kinds[i].nInfo,
         imgArea  |-> kinds[i].imgArea,
         pageArea |-> kinds[i].pageArea,
         rotation |-> kinds[i].rotation,
         profile  |-> kinds[i].profile,
         fault    |-> kinds[i].fault]]

Docs == {MakeDoc(ks) : ks \in KindSeqs}

\* The documents on which the tests of _can_extract_image are at their
\* limits.
BoundaryDocs ==
    {MakeDoc(ks) : ks \in {<<k>> : k \in ClassKindsOk \cup AreaKinds} \cup BoundaryKinds}

\* Documents some of whose pages fitz fails to read: an extractable page, a
\* page with text, and a broken page, in every order.
FaultyKinds == {FullPage(0, "jpg"), Kind(1, 3, 1, 100, 0, "jpg"), Broken(FullPage(0, "jpg"))}

FaultyDocs == {MakeDoc(ks) : ks \in UNION {[1..n -> FaultyKinds] : n \in 1..MaxPages}}

page_count == Len(doc)

\* The xrefs of the document that are image objects.
ImageXrefs == UNION {{doc[i].images[j] : j \in 1..Len(doc[i].images)} : i \in 1..Len(doc)}

\* fitz.image_profile(self.doc.xref_stream_raw(xref)): the profile of the
\* image, or the exception raised (a bad xref is a ValueError).
image_profile(xref) ==
    IF \E i \in 1..Len(doc) : doc[i].images # <<>> /\ doc[i].images[1] = xref
    THEN (CHOOSE p \in {doc[i].profile : i \in {n \in 1..Len(doc) :
                            doc[n].images # <<>> /\ doc[n].images[1] = xref}} : TRUE)
    ELSE IF xref \in ImageXrefs THEN "jpg"
    ELSE "ValueError"

ExtOf(profile) == IF profile = "jpg" THEN JPG ELSE PNG

(***************************************************************************)
(* FitzWorker: classification.                                             *)
(***************************************************************************)
_get_image_xref(page_num) ==
    LET image_info == doc[page_num + 1].images
    IN  IF image_info = <<>> THEN -1 ELSE image_info[1]

\* _check_image_type without its except and finally clauses: whatever the
\* probe raises leaves the method.
_check_image_type_uncaught(page_num) ==
    LET img == image_profile(_get_image_xref(page_num))
    IN  IF img \in {"AttributeError", "TypeError", "ValueError"}
        THEN [extension |-> None, raised |-> img]
        ELSE IF img \in {"empty", "noext"} THEN [extension |-> PNG, raised |-> NoError]
        ELSE [extension |-> ExtOf(img), raised |-> NoError]

\* The extension returned, and the exception that leaves the method.
_check_image_type(page_num) ==
    LET xref == _get_image_xref(page_num)
        img  == image_profile(xref)
        \* the try block: the extension it leaves, and what it raises
        body == IF img \in {"AttributeError", "TypeError", "ValueError"}
                THEN [extension |-> PNG, raised |-> img]
                ELSE IF img = "empty" THEN [extension |-> PNG, raised |-> NoError]
                ELSE IF img = "noext" THEN [extension |-> PNG, raised |-> NoError]
                ELSE [extension |-> ExtOf(img), raised |-> NoError]
        \* except (AttributeError, TypeError): pass
        pending == IF body.raised \in {"AttributeError", "TypeError"} THEN NoError
                   ELSE body.raised
    IN  \* finally: return extension -- the return discards a pending exception
        [extension |-> body.extension, raised |-> NoError]

\* _image_extension without the cache: every call probes.
_image_extension_uncached(page_num) ==
    LET r == _check_image_type(page_num)
    IN  [result |-> r.extension, raised |-> r.raised, extension |-> r.extension,
         probed |-> Append(probed, page_num)]

\* The result, and the values of _extension and of the probe log after the call.
_image_extension(page_num) ==
    IF extension = None
    THEN LET r == _check_image_type(page_num)
         IN  [result |-> r.extension, raised |-> r.raised,
              extension |-> IF r.raised = NoError THEN r.extension ELSE extension,
              probed |-> Append(probed, page_num)]
    ELSE [result |-> extension, raised |-> NoError, extension |-> extension,
          probed |-> probed]

\* _must_render_page that forgets to set _complex_doc.
_must_render_page_noflag(page_num) ==
    LET page == doc[page_num + 1]
    IN  [result |-> Len(page.images) # 1 \/ page.textLen > 0,
         complex_doc |-> complex_doc, raised |-> page.fault]

\* _must_render_page that looks at the image count only.
_must_render_page_notext(page_num) ==
    LET page == doc[page_num + 1]
    IN  IF Len(page.images) # 1
        THEN [result |-> TRUE, complex_doc |-> TRUE, raised |-> page.fault]
        ELSE [result |-> FALSE, complex_doc |-> complex_doc, raised |-> page.fault]

\* The result, the value of _complex_doc after the call, and the exception
\* that leaves the method: the method has no try, so what fitz raises on
\* self.doc[page_num], get_images or get_text is what the caller gets.
_must_render_page(page_num) ==
    LET page == doc[page_num + 1]
    IN  IF page.fault # NoError
        THEN [result |-> FALSE, complex_doc |-> complex_doc, raised |-> page.fault]
        ELSE IF Len(page.images) # 1 \/ page.textLen > 0
        THEN [result |-> TRUE, complex_doc |-> TRUE, raised |-> NoError]
        ELSE [result |-> FALSE, complex_doc |-> complex_doc, raised |-> NoError]

\* _can_extract_image comparing with <= instead of <.
_can_extract_image_le(page_num) ==
    LET page == doc[page_num + 1]
    IN  IF page.nInfo # 1 THEN FALSE
        ELSE LET area_diff == IF page.pageArea >= page.imgArea
                              THEN page.pageArea - page.imgArea
                              ELSE page.imgArea - page.pageArea
             IN  100 * area_diff <= 5 * page.pageArea

\* _can_extract_image without abs(): page_area - img_area < 0.05 * page_area
_can_extract_image_signed(page_num) ==
    LET page == doc[page_num + 1]
    IN  IF page.nInfo # 1 THEN FALSE
        ELSE 100 * (page.pageArea - page.imgArea) < 5 * page.pageArea

\* area_diff < 0.05 * page_area, on the integer areas of the two irects: the
\* product is a float, which for a page_area that is a multiple of 20 is
\* the integer page_area / 20 exactly, and the comparison of an int with a
\* float is exact, so the test is the one on integers.
_can_extract_image(page_num) ==
    LET page == doc[page_num + 1]
    IN  IF page.nInfo # 1 THEN FALSE
        ELSE LET page_area == page.pageArea
                 img_area  == page.imgArea
                 area_diff == IF page_area >= img_area THEN page_area - img_area
                              ELSE img_area - page_area
             IN  100 * area_diff < 5 * page_area

\* _extract_as_image without the test of _complex_doc.
_extract_as_image_nocheck(page_num) ==
    LET m == _must_render_page(page_num)
    IN  IF m.raised # NoError
        THEN [result |-> FALSE, complex_doc |-> m.complex_doc, raised |-> m.raised]
        ELSE IF ~m.result /\ _can_extract_image(page_num)
        THEN [result |-> TRUE, complex_doc |-> m.complex_doc, raised |-> NoError]
        ELSE [result |-> FALSE, complex_doc |-> m.complex_doc, raised |-> NoError]

\* _extract_as_image setting _complex_doc for every page it does not extract.
_extract_as_image_flags(page_num) ==
    IF complex_doc
    THEN [result |-> FALSE, complex_doc |-> complex_doc, raised |-> NoError]
    ELSE LET m == _must_render_page(page_num)
         IN  IF m.raised # NoError
             THEN [result |-> FALSE, complex_doc |-> m.complex_doc, raised |-> m.raised]
             ELSE IF ~m.result /\ _can_extract_image(page_num)
             THEN [result |-> TRUE, complex_doc |-> m.complex_doc, raised |-> NoError]
             ELSE [result |-> FALSE, complex_doc |-> TRUE, raised |-> NoError]

\* The result, the value of _complex_doc after the call, and the exception
\* that leaves the method.
_extract_as_image(page_num) ==
    IF complex_doc
    THEN [result |-> FALSE, complex_doc |-> complex_doc, raised |-> NoError]
    ELSE LET m == _must_render_page(page_num)
         IN  IF m.raised # NoError
             THEN [result |-> FALSE, complex_doc |-> m.complex_doc, raised |-> m.raised]
             ELSE IF ~m.result /\ _can_extract_image(page_num)
             THEN [result |-> TRUE, complex_doc |-> m.complex_doc, raised |-> NoError]
             ELSE [result |-> FALSE, complex_doc |-> m.complex_doc, raised |-> NoError]

(***************************************************************************)
(* FitzWorker.iter_contents: the file names.                               *)
(***************************************************************************)
\* The page name with the 0-based index.
PageName_zero_based(page_num) == PAGE \o Format04(page_num)

\* The page name with a page number field of exactly four characters.
PageName_fixed_width(page_num) == PAGE \o FirstChars(Format04(page_num + 1), 4)

\* f"page{pg + 1:04}"
PageName(page_num) == PAGE \o Format04(page_num + 1)

\* f"{pagenum}{XREF_DELIMITER}{xref:04}.{ext}"
ExtractedName(page_num, xref, ext) ==
    PageName(page_num) \o XREF_DELIMITER \o Format04(xref) \o DOT \o ext

\* f"{pagenum}.png"
RenderedName(page_num) == PageName(page_num) \o DOT \o PNG

(***************************************************************************)
(* The PDF library and the image codec, as extract_xref and render_page    *)
(* use them.                                                               *)
(***************************************************************************)
PDF_RENDER_DPI_DEF == 72 * 4

\* self.doc[i]: an index below page_count is a page of the document (a
\* negative one counts from the end), any other is an IndexError.
PageIndex(i) ==
    IF i >= page_count \/ page_count = 0 THEN 0
    ELSE IF i >= 0 THEN i + 1
    ELSE (i % page_count) + 1

HasPage(i) == PageIndex(i) # 0

\* An extract_image whose result extract_xref always goes on with: for an
\* xref that is no image, the empty bytes of img.get("image", b"").
extract_image_never_empty(xref) ==
    IF xref \in ImageXrefs THEN [found |-> TRUE, image |-> xref]
    ELSE [found |-> TRUE, image |-> 0]

\* self.doc.extract_image(xref): the image, or nothing when the xref is no image
extract_image(xref) ==
    IF xref \in ImageXrefs THEN [found |-> TRUE, image |-> xref]
    ELSE [found |-> FALSE, image |-> 0]

\* The directory file names are extracted to.
Dest == "dest"

NoCall == [filename |-> <<>>, path |-> "none", page |-> 0, xref |-> 0, raised |-> NoError]

\* No extract_pages stream is held by the caller.
NoStream == [state |-> "none", proc |-> 0, entries |-> <<>>, acked |-> <<>>,
             attempted |-> <<>>]

\* The calling threads.
Threads == 1..MaxThreads

\* A thread that is in no call of the facade.
IdleThread == [pc |-> "idle", ref |-> 0, in_open |-> FALSE, raised |-> NoError]

\* The caller has made no call yet.
NoOp == [op |-> "none", raised |-> NoError, result |-> "none"]

(***************************************************************************)
(* FitzWorker.extract_xref, render_page, extract_file.  Each gives the     *)
(* file system after the call (dirs, files) and the exception raised; ds   *)
(* is the set of directories there are when the worker runs the call.      *)
(***************************************************************************)
\* What the codec and the disk do during one extract_xref call: all goes
\* well, the codec cannot decode the image (Image.open or transpose raises),
\* or writing fails after the file was opened for writing.
IOOutcomes == {"ok", "decode_fails", "write_fails"}

\* The files after a write of content under filename.
WithFile(filename, content) ==
    [f \in DOMAIN files \cup {filename} |-> IF f = filename THEN content ELSE files[f]]

\* extract_xref creating the directory before it looks at the image.
extract_xref_mkdir_first(ds, page, xref, filename, io) ==
    LET img == extract_image(xref)
        made == ds \cup {Dest}
    IN  IF ~img.found
        THEN [dirs |-> made, files |-> files, raised |-> NoError]
        ELSE IF ~HasPage(page)
        THEN [dirs |-> made, files |-> files, raised |-> "IndexError"]
        ELSE [dirs |-> made,
              files |-> WithFile(filename,
                           [kind |-> "raw", image |-> img.image, transpose |-> 0]),
              raised |-> NoError]

\* The transpose that turns the image the way the page is turned.
Transpose_same_rotation(rotation) == rotation

\* transpose: ROTATE_270, ROTATE_180 for 180, ROTATE_90 for 270
Transpose(rotation) == IF rotation = 180 THEN 180
                       ELSE IF rotation = 270 THEN 90
                       ELSE 270

\* The test that does not read the preference.
MustTranspose_ignores_pref(rotation) == rotation \in {90, 180, 270}

\* rotation in (90, 180, 270) and prefs['auto rotate from exif']
MustTranspose(rotation) == rotation \in {90, 180, 270} /\ prefs

extract_xref(ds, page, xref, filename, io) ==
    LET img == extract_image(xref)
    IN  IF ~img.found
        THEN [dirs |-> ds, files |-> files, raised |-> NoError]
        ELSE LET made == ds \cup {Dest}    \* os.makedirs(..., exist_ok=True)
             IN  IF ~HasPage(page)
                 THEN [dirs |-> made, files |-> files, raised |-> "IndexError"]
                 ELSE LET rotation == doc[PageIndex(page)].rotation
                          transpose == Transpose(rotation)
                          partial == [kind |-> "partial", image |-> img.image,
                                      transpose |-> 0]
                      IN  IF MustTranspose(rotation)
                          THEN \* Image.open, transpose, pil_img.save(path)
                               IF io = "decode_fails"
                               THEN [dirs |-> made, files |-> files, raised |-> "OSError"]
                               ELSE IF io = "write_fails"
                               THEN \* save removes the file it created, not one
                                    \* that was there before
                                    [dirs |-> made,
                                     files |-> IF filename \in DOMAIN files
                                               THEN WithFile(filename, partial)
                                               ELSE files,
                                     raised |-> "OSError"]
                               ELSE [dirs |-> made,
                                     files |-> WithFile(filename,
                                                  [kind |-> "pil", image |-> img.image,
                                                   transpose |-> transpose]),
                                     raised |-> NoError]
                          ELSE \* open(path, "wb"), out.write(img_bytes)
                               IF io = "write_fails"
                               THEN [dirs |-> made, files |-> WithFile(filename, partial),
                                     raised |-> "OSError"]
                               ELSE [dirs |-> made,
                                     files |-> WithFile(filename,
                                                  [kind |-> "raw", image |-> img.image,
                                                   transpose |-> 0]),
                                     raised |-> NoError]

render_page(ds, page_num, filename) ==
    IF ~HasPage(page_num)
    THEN [dirs |-> ds, files |-> files, raised |-> "IndexError"]
    ELSE IF Dest \notin ds       \* pixmap.save into a missing directory
    THEN [dirs |-> ds, files |-> files, raised |-> "RuntimeError"]
    ELSE [dirs |-> ds,
          files |-> [f \in DOMAIN files \cup {filename} |->
                        IF f = filename
                        THEN [kind |-> "pixmap", page |-> PageIndex(page_num) - 1,
                              dpi |-> PDF_RENDER_DPI_DEF]
                        ELSE files[f]],
          raised |-> NoError]

\* extract_file testing startswith('page') before the delimiter.
extract_file_page_first(ds, filename, io) ==
    IF StartsWith(filename, PAGE)
    THEN LET pg_num == ParseInt(Slice(filename, 4, 8))
         IN  IF ~pg_num.ok
             THEN [path |-> "none", page |-> 0, xref |-> 0,
                   out |-> [dirs |-> ds, files |-> files, raised |-> "ValueError"]]
             ELSE [path |-> "render_page", page |-> pg_num.val - 1, xref |-> 0,
                   out |-> render_page(ds, pg_num.val - 1, filename)]
    ELSE [path |-> "none", page |-> 0, xref |-> 0,
          out |-> [dirs |-> ds, files |-> files, raised |-> NoError]]

\* The call made (path, page, xref) and its outcome.
extract_file(ds, filename, io) ==
    IF Contains(filename, XREF_DELIMITER)
    THEN IF Cardinality(Occurrences(filename, XREF_DELIMITER)) # 1
         THEN [path |-> "none", page |-> 0, xref |-> 0,
               out |-> [dirs |-> ds, files |-> files, raised |-> "ValueError"]]
         ELSE LET at     == CHOOSE i \in Occurrences(filename, XREF_DELIMITER) : TRUE
                  pginfo == SubSeq(filename, 1, at - 1)
                  ref    == SubSeq(filename, at + Len(XREF_DELIMITER), Len(filename))
                  page   == ParseInt(LastChars(pginfo, 4))
                  xref   == ParseInt(FirstChars(ref, 4))
              IN  IF ~page.ok \/ ~xref.ok
                  THEN [path |-> "none", page |-> 0, xref |-> 0,
                        out |-> [dirs |-> ds, files |-> files, raised |-> "ValueError"]]
                  ELSE [path |-> "extract_xref", page |-> page.val - 1, xref |-> xref.val,
                        out |-> extract_xref(ds, page.val - 1, xref.val, filename, io)]
    ELSE IF StartsWith(filename, PAGE)
    THEN LET pg_num == ParseInt(Slice(filename, 4, 8))
         IN  IF ~pg_num.ok
             THEN [path |-> "none", page |-> 0, xref |-> 0,
                   out |-> [dirs |-> ds, files |-> files, raised |-> "ValueError"]]
             ELSE [path |-> "render_page", page |-> pg_num.val - 1, xref |-> 0,
                   out |-> render_page(ds, pg_num.val - 1, filename)]
    ELSE [path |-> "none", page |-> 0, xref |-> 0,
          out |-> [dirs |-> ds, files |-> files, raised |-> NoError]]

(***************************************************************************)
(* The state machine.                                                      *)
(***************************************************************************)
Range(s) == {s[i] : i \in 1..Len(s)}

\* File names a caller asks for besides the listed ones: a rendered-form
\* name, an extracted-form name whose xref is no image of the document, and
\* a name of neither form.
ExtraNames ==
    {RenderedName(0), ExtractedName(0, 3, PNG),
     <<"c", "o", "v", "e", "r", ".", "p", "n", "g">>}

Init ==
    /\ doc \in Docs
    /\ readable = TRUE
    /\ prefs \in BOOLEAN
    /\ gen = "none"
    /\ pg = 0
    /\ extension = None
    /\ complex_doc = FALSE
    /\ yielded = <<>>
    /\ probed = <<>>
    /\ dirs \in {{}, {Dest}}
    /\ files = <<>>
    /\ lastCall = NoCall
    /\ nExtract = 0
    /\ facade = "unbuilt"
    /\ has_mgr = FALSE
    /\ mgrProc = 0
    /\ procs = <<>>
    /\ genProc = 0
    /\ xgen = NoStream
    /\ lastOp = NoOp
    /\ attr = 0
    /\ wranglers = <<>>
    /\ thread = [t \in Threads |-> IdleThread]
    /\ served = <<>>

\* _list_pages listing with one FitzWorker kept for the life of the process.
_list_pages_keeps_worker ==
    /\ gen' = "running"
    /\ pg' = 0
    /\ yielded' = <<>>
    /\ UNCHANGED <<extension, complex_doc, probed>>

\* WorkerProxy._list_pages in the server process: a new FitzWorker and its
\* iter_contents generator.
_list_pages ==
    /\ gen' = "running"
    /\ pg' = 0
    /\ extension' = None
    /\ complex_doc' = FALSE
    /\ yielded' = <<>>
    /\ probed' = <<>>

ListPages ==
    /\ _list_pages
    /\ UNCHANGED threadVars
    /\ UNCHANGED <<doc, readable, prefs, dirs, files, lastCall, nExtract>>
    /\ UNCHANGED sessionVars

\* A listing that classifies every page at the first pull.
iter_contents_next_eager ==
    /\ gen = "running"
    /\ IF pg < page_count
       THEN \E e \in {_extract_as_image(pg)} :
                /\ complex_doc' = e.complex_doc
                /\ IF e.raised # NoError
                   THEN /\ gen' = "raised"
                        /\ UNCHANGED <<pg, extension, yielded, probed>>
                   ELSE IF e.result
                   THEN \E xref \in {_get_image_xref(pg)}, x \in {_image_extension(pg)} :
                            /\ extension' = x.extension
                            /\ probed' = x.probed
                            /\ IF x.raised # NoError
                               THEN /\ gen' = "raised"
                                    /\ UNCHANGED <<pg, yielded>>
                               ELSE /\ yielded' = Append(yielded,
                                                    ExtractedName(pg, xref, x.result))
                                    /\ pg' = page_count
                                    /\ UNCHANGED gen
                   ELSE /\ yielded' = Append(yielded, RenderedName(pg))
                        /\ pg' = page_count
                        /\ UNCHANGED <<gen, extension, probed>>
       ELSE /\ gen' = "done"
            /\ UNCHANGED <<pg, extension, complex_doc, yielded, probed>>

\* One next() on the running generator: the loop body of iter_contents for
\* page pg up to its yield, or the end of the loop.
iter_contents_next ==
    /\ gen = "running"
    /\ IF pg < page_count
       THEN \E e \in {_extract_as_image(pg)} :
                /\ complex_doc' = e.complex_doc
                /\ IF e.raised # NoError
                   THEN /\ gen' = "raised"
                        /\ UNCHANGED <<pg, extension, yielded, probed>>
                   ELSE IF e.result
                   THEN \E xref \in {_get_image_xref(pg)}, x \in {_image_extension(pg)} :
                            /\ extension' = x.extension
                            /\ probed' = x.probed
                            /\ IF x.raised # NoError
                               THEN /\ gen' = "raised"
                                    /\ UNCHANGED <<pg, yielded>>
                               ELSE /\ yielded' = Append(yielded,
                                                    ExtractedName(pg, xref, x.result))
                                    /\ pg' = pg + 1
                                    /\ UNCHANGED gen
                   ELSE /\ yielded' = Append(yielded, RenderedName(pg))
                        /\ pg' = pg + 1
                        /\ UNCHANGED <<gen, extension, probed>>
       ELSE /\ gen' = "done"
            /\ UNCHANGED <<pg, extension, complex_doc, yielded, probed>>

\* The exception with which the loop body for page pg leaves the generator.
iter_contents_raised ==
    IF _extract_as_image(pg).raised # NoError THEN _extract_as_image(pg).raised
    ELSE _image_extension(pg).raised

Next_iter_contents ==
    /\ iter_contents_next
    /\ UNCHANGED threadVars
    /\ UNCHANGED <<doc, readable, prefs, dirs, files, lastCall, nExtract>>
    /\ UNCHANGED sessionVars

\* FitzWorker.extract_file(filename, Dest).  Decoding and writing can fail
\* only on the path of extract_xref.
ExtractFile(filename, io) ==
    /\ nExtract < MaxExtract
    /\ io = "ok" \/ Contains(filename, XREF_DELIMITER)
    /\ \E r \in {extract_file(dirs, filename, io)} :
        /\ nExtract' = nExtract + 1
        /\ dirs' = r.out.dirs
        /\ files' = r.out.files
        /\ lastCall' = [filename |-> filename, path |-> r.path, page |-> r.page,
                        xref |-> r.xref, raised |-> r.out.raised]
        /\ UNCHANGED threadVars
        /\ UNCHANGED <<doc, readable, prefs, gen, pg, extension, complex_doc, yielded, probed>>
        /\ UNCHANGED sessionVars

Next ==
    \/ ListPages
    \/ Next_iter_contents
    \/ \E filename \in Range(yielded) \cup ExtraNames, io \in IOOutcomes :
          ExtractFile(filename, io)

Spec == Init /\ [][Next]_vars

\* The worker listing documents with pages that fitz fails to read.
InitFaulty ==
    /\ doc \in FaultyDocs
    /\ readable = TRUE
    /\ prefs = TRUE
    /\ gen = "none"
    /\ pg = 0
    /\ extension = None
    /\ complex_doc = FALSE
    /\ yielded = <<>>
    /\ probed = <<>>
    /\ dirs = {}
    /\ files = <<>>
    /\ lastCall = NoCall
    /\ nExtract = 0
    /\ facade = "unbuilt"
    /\ has_mgr = FALSE
    /\ mgrProc = 0
    /\ procs = <<>>
    /\ genProc = 0
    /\ xgen = NoStream
    /\ lastOp = NoOp
    /\ attr = 0
    /\ wranglers = <<>>
    /\ thread = [t \in Threads |-> IdleThread]
    /\ served = <<>>

NextFaulty ==
    \/ ListPages
    \/ Next_iter_contents

SpecFaulty == InitFaulty /\ [][NextFaulty]_vars

\* The worker listing the documents of BoundaryDocs.
InitBoundary ==
    /\ doc \in BoundaryDocs
    /\ readable = TRUE
    /\ prefs = TRUE
    /\ gen = "none"
    /\ pg = 0
    /\ extension = None
    /\ complex_doc = FALSE
    /\ yielded = <<>>
    /\ probed = <<>>
    /\ dirs = {}
    /\ files = <<>>
    /\ lastCall = NoCall
    /\ nExtract = 0
    /\ facade = "unbuilt"
    /\ has_mgr = FALSE
    /\ mgrProc = 0
    /\ procs = <<>>
    /\ genProc = 0
    /\ xgen = NoStream
    /\ lastOp = NoOp
    /\ attr = 0
    /\ wranglers = <<>>
    /\ thread = [t \in Threads |-> IdleThread]
    /\ served = <<>>

NextBoundary ==
    \/ ListPages
    \/ Next_iter_contents

SpecBoundary == InitBoundary /\ [][NextBoundary]_vars

(***************************************************************************)
(* The session: FitzArchive (parent.py), its FitzProcessWrangler and       *)
(* FitzManager (manager.py), the server process the manager starts, and    *)
(* the two GeneratorProxy streams a caller holds.  One calling thread.     *)
(*                                                                         *)
(* The generator behind the listing stream is the worker-level generator   *)
(* above (gen, pg, ...) living in the process genProc; the generator       *)
(* behind the extraction stream is the body of WorkerProxy._extract_pages  *)
(* living in the process xgen.proc.  A proxy holds a reference to its      *)
(* manager, and a manager that is no longer referenced shuts its process   *)
(* down.                                                                   *)
(***************************************************************************)
MaxProcs == 2

MaxAttempts == 2

\* What a call through a proxy raises when the server process is gone
\* (EOFError, BrokenPipeError, ConnectionRefusedError in the library).
IPCError == "IPCError"

StopIteration == "StopIteration"

\* The documents the session is opened on: an extractable rotated page
\* followed by a page with text, and a single extractable page.
SessionDocs ==
    {MakeDoc(<<FullPage(90, "jpg"), Kind(1, 3, 1, 100, 0, "jpg")>>),
     MakeDoc(<<FullPage(0, "png")>>)}

\* The names a caller asks for: the first page in extracted form and the
\* second page in rendered form.
SessionNames == {ExtractedName(0, FirstXref(1), JPG), RenderedName(1)}

\* The entries argument of iter_extract.
EntryLists == UNION {[1..n -> SessionNames] : n \in 1..MaxAttempts}

Alive(ps, p) == p \in DOMAIN ps /\ ps[p] = "alive"

\* A FitzManager whose wrangler is deleted and whose proxies are all gone is
\* finalized, which shuts its server process down.
Sweep(ps, refs) ==
    [p \in DOMAIN ps |-> IF ps[p] = "alive" /\ p \notin refs THEN "shutdown" ELSE ps[p]]

\* BaseArchive._create_directory(destination_dir)
_create_directory(ds) == ds \cup {Dest}

\* A mgr property that also looks at the server process.
NeedsOpen_or_dead == ~has_mgr \/ ~Alive(procs, mgrProc)

\* FitzArchive.mgr: whether the property has to open a manager first.
NeedsOpen == ~has_mgr

\* A new server process can still be started.
CanStart == Len(procs) < MaxProcs

\* A mgr property that goes back to the server process of the manager that
\* close deleted.
mgr_reuses_closed ==
    IF NeedsOpen /\ procs # <<>>
    THEN [proc |-> Len(procs), procs |-> [procs EXCEPT ![Len(procs)] = "alive"]]
    ELSE IF NeedsOpen
    THEN [proc |-> Len(procs) + 1, procs |-> Append(procs, "alive")]
    ELSE [proc |-> mgrProc, procs |-> procs]

\* FitzArchive.mgr: the manager the property returns, as the process behind
\* it and the processes there are once it has returned.  _open_doc builds a
\* FitzProcessWrangler, whose __init__ starts a FitzManager (a new server
\* process) and calls open(filename) on it.
mgr ==
    IF NeedsOpen
    THEN [proc |-> Len(procs) + 1, procs |-> Append(procs, "alive")]
    ELSE [proc |-> mgrProc, procs |-> procs]

\* A worker that comes up whatever fitz.open does.
FitzWorker_init_lenient == NoError

\* FitzWorker.__init__: self.doc = fitz.open(filename); the exception that
\* leaves it.  WorkerProxy._open only stores the file name, so this is where
\* a missing or corrupt file shows, at each call that builds a FitzWorker.
FitzWorker_init == IF readable THEN NoError ELSE "FileDataError"

\* FitzArchive.__init__: the debug message takes self.mgr.page_count() as
\* its argument, so the manager is opened and the pages are counted.  When
\* page_count raises, so does the constructor: the caller gets no facade,
\* and the wrangler of the object that was being built is collected.
Construct ==
    /\ facade = "unbuilt"
    /\ CanStart
    /\ IF FitzWorker_init = NoError
       THEN /\ facade' = "built"
            /\ has_mgr' = TRUE
            /\ mgrProc' = mgr.proc
            /\ procs' = mgr.procs
            /\ lastOp' = [op |-> "__init__", raised |-> NoError,
                          result |-> "page_count"]
       ELSE /\ facade' = "failed"
            /\ has_mgr' = FALSE
            /\ mgrProc' = 0
            /\ procs' = Sweep(mgr.procs, {genProc, xgen.proc})
            /\ lastOp' = [op |-> "__init__", raised |-> FitzWorker_init,
                          result |-> "none"]
    /\ UNCHANGED <<genProc, xgen>>
    /\ UNCHANGED workerVars
    /\ UNCHANGED threadVars

\* close deleting _mgr without the hasattr test.
close_no_hasattr ==
    IF has_mgr
    THEN [has_mgr |-> FALSE, mgrProc |-> 0, raised |-> NoError, result |-> "deleted"]
    ELSE [has_mgr |-> FALSE, mgrProc |-> 0, raised |-> "AttributeError",
          result |-> "none"]

\* FitzArchive.close: what it leaves of the manager, and how it ends.
close ==
    IF has_mgr
    THEN [has_mgr |-> FALSE, mgrProc |-> 0, raised |-> NoError, result |-> "deleted"]
    ELSE [has_mgr |-> has_mgr, mgrProc |-> mgrProc, raised |-> NoError,
          result |-> "nothing"]

Close ==
    /\ facade = "built"
    /\ has_mgr' = close.has_mgr
    /\ mgrProc' = close.mgrProc
    /\ procs' = Sweep(procs, {mgrProc', genProc, xgen.proc})
    /\ lastOp' = [op |-> "close", raised |-> close.raised, result |-> close.result]
    /\ UNCHANGED <<facade, genProc, xgen>>
    /\ UNCHANGED workerVars
    /\ UNCHANGED threadVars

\* FitzArchive.iter_contents: the caller keeps the stream returned, in place
\* of the listing stream held before.
IterContents ==
    /\ facade = "built"
    /\ has_mgr \/ CanStart
    /\ IF Alive(mgr.procs, mgr.proc) /\ FitzWorker_init # NoError
       THEN /\ has_mgr' = TRUE
            /\ mgrProc' = mgr.proc
            /\ procs' = Sweep(mgr.procs, {mgrProc', genProc, xgen.proc})
            /\ lastOp' = [op |-> "iter_contents", raised |-> FitzWorker_init,
                          result |-> "none"]
            /\ UNCHANGED <<gen, pg, extension, complex_doc, yielded, probed>>
            /\ UNCHANGED genProc
       ELSE IF Alive(mgr.procs, mgr.proc)
       THEN /\ _list_pages
            /\ genProc' = mgr.proc
            /\ has_mgr' = TRUE
            /\ mgrProc' = mgr.proc
            /\ procs' = Sweep(mgr.procs, {mgrProc', genProc', xgen.proc})
            /\ lastOp' = [op |-> "iter_contents", raised |-> NoError,
                          result |-> "stream"]
       ELSE /\ lastOp' = [op |-> "iter_contents", raised |-> IPCError,
                          result |-> "none"]
            /\ UNCHANGED <<gen, pg, extension, complex_doc, yielded, probed>>
            /\ UNCHANGED <<has_mgr, mgrProc, procs, genProc>>
    /\ UNCHANGED threadVars
    /\ UNCHANGED <<doc, readable, prefs, dirs, files, lastCall, nExtract, facade, xgen>>

\* A stream that starts over when pulled after its end.
exhausted_next_restarts ==
    /\ gen \in {"done", "raised"}
    /\ _list_pages

\* next() on a generator that has finished: StopIteration again.
exhausted_next ==
    /\ gen \in {"done", "raised"}
    /\ UNCHANGED <<gen, pg, extension, complex_doc, yielded, probed>>

\* GeneratorProxy.__next__ on the listing stream.
PullListing ==
    /\ genProc # 0
    /\ IF ~Alive(procs, genProc)
       THEN /\ lastOp' = [op |-> "next", raised |-> IPCError, result |-> "none"]
            /\ UNCHANGED <<gen, pg, extension, complex_doc, yielded, probed>>
       ELSE \/ /\ iter_contents_next
               /\ lastOp' = IF gen' = "done"
                            THEN [op |-> "next", raised |-> StopIteration,
                                  result |-> "none"]
                            ELSE IF gen' = "raised"
                            THEN [op |-> "next", raised |-> iter_contents_raised,
                                  result |-> "none"]
                            ELSE [op |-> "next", raised |-> NoError,
                                  result |-> "element"]
            \/ /\ exhausted_next
               /\ lastOp' = [op |-> "next", raised |-> StopIteration,
                             result |-> "none"]
    /\ UNCHANGED threadVars
    /\ UNCHANGED <<doc, readable, prefs, dirs, files, lastCall, nExtract>>
    /\ UNCHANGED <<facade, has_mgr, mgrProc, procs, genProc, xgen>>

\* Letting go of a stream that takes the manager's process with it.
DropListing_ends_process ==
    /\ genProc # 0
    /\ genProc' = 0
    /\ procs' = Sweep(procs, {xgen.proc} \ {genProc})
    /\ UNCHANGED <<facade, has_mgr, mgrProc, xgen, lastOp>>
    /\ UNCHANGED workerVars
    /\ UNCHANGED threadVars

\* The caller lets go of the listing stream before or after its end.
DropListing ==
    /\ genProc # 0
    /\ genProc' = 0
    /\ procs' = Sweep(procs, {mgrProc, xgen.proc})
    /\ UNCHANGED <<facade, has_mgr, mgrProc, xgen, lastOp>>
    /\ UNCHANGED workerVars
    /\ UNCHANGED threadVars

\* FitzArchive.iter_extract(entries, Dest): the caller keeps the stream
\* returned, in place of the extraction stream held before.  The body of
\* _extract_pages does not run before the first next().
IterExtract(entries) ==
    /\ facade = "built"
    /\ has_mgr \/ CanStart
    /\ nExtract + Len(entries) <= MaxAttempts
    /\ dirs' = _create_directory(dirs)
    /\ IF Alive(mgr.procs, mgr.proc)
       THEN /\ xgen' = [state |-> "running", proc |-> mgr.proc, entries |-> entries,
                        acked |-> <<>>, attempted |-> <<>>]
            /\ has_mgr' = TRUE
            /\ mgrProc' = mgr.proc
            /\ procs' = Sweep(mgr.procs, {mgrProc', genProc, xgen'.proc})
            /\ lastOp' = [op |-> "iter_extract", raised |-> NoError,
                          result |-> "stream"]
       ELSE /\ lastOp' = [op |-> "iter_extract", raised |-> IPCError,
                          result |-> "none"]
            /\ UNCHANGED <<has_mgr, mgrProc, procs, xgen>>
    /\ UNCHANGED threadVars
    /\ UNCHANGED <<doc, readable, prefs, gen, pg, extension, complex_doc, yielded, probed,
                   files, lastCall, nExtract, facade, genProc>>

\* The loop body with its two statements swapped: yield e, then
\* w.extract_file(e, save_path) when the generator is resumed.
_extract_pages_next_yield_first(io) ==
    /\ xgen.state = "running"
    /\ LET k == Len(xgen.acked)
           n == Len(xgen.entries)
       IN  IF k = 0 /\ n > 0
           THEN /\ xgen' = [xgen EXCEPT !.acked = Append(@, xgen.entries[1])]
                /\ UNCHANGED <<dirs, files, lastCall, nExtract>>
           ELSE IF n > 0
           THEN LET e == xgen.entries[k]
                IN  \E r \in {extract_file(dirs, e, io)} :
                    /\ dirs' = r.out.dirs
                    /\ files' = r.out.files
                    /\ lastCall' = [filename |-> e, path |-> r.path, page |-> r.page,
                                    xref |-> r.xref, raised |-> r.out.raised]
                    /\ nExtract' = nExtract + 1
                    /\ xgen' = IF r.out.raised # NoError
                               THEN [xgen EXCEPT !.state = "raised",
                                                 !.attempted = Append(@, e)]
                               ELSE IF k < n
                               THEN [xgen EXCEPT !.attempted = Append(@, e),
                                                 !.acked = Append(@, xgen.entries[k + 1])]
                               ELSE [xgen EXCEPT !.attempted = Append(@, e),
                                                 !.state = "done"]
           ELSE /\ xgen' = [xgen EXCEPT !.state = "done"]
                /\ UNCHANGED <<dirs, files, lastCall, nExtract>>

\* The entries extracted all at once at the first pull (only the first
\* entry's files are written here; every entry is logged as attempted).
_extract_pages_next_eager(io) ==
    /\ xgen.state = "running"
    /\ LET k == Len(xgen.acked)
       IN  IF k < Len(xgen.entries)
           THEN LET e == xgen.entries[k + 1]
                IN  \E r \in {extract_file(dirs, e, io)} :
                    /\ dirs' = r.out.dirs
                    /\ files' = r.out.files
                    /\ lastCall' = [filename |-> e, path |-> r.path, page |-> r.page,
                                    xref |-> r.xref, raised |-> r.out.raised]
                    /\ nExtract' = nExtract + 1
                    /\ xgen' = IF r.out.raised # NoError
                               THEN [xgen EXCEPT !.state = "raised",
                                                 !.attempted = Append(@, e)]
                               ELSE [xgen EXCEPT !.attempted = xgen.entries,
                                                 !.acked = Append(@, e)]
           ELSE /\ xgen' = [xgen EXCEPT !.state = "done"]
                /\ UNCHANGED <<dirs, files, lastCall, nExtract>>

\* The generator of _extract_pages has not been pulled yet: its first
\* statement, w = FitzWorker(cls.filename), is still to run.
NotStarted == xgen.state = "running" /\ xgen.attempted = <<>>

\* One next() on the running generator of _extract_pages: at the first, the
\* FitzWorker is built; then the extraction of the next entry and its
\* yield, or the end of the loop.
_extract_pages_next(io) ==
    /\ xgen.state = "running"
    /\ LET k == Len(xgen.acked)
       IN  IF NotStarted /\ FitzWorker_init # NoError
           THEN /\ xgen' = [xgen EXCEPT !.state = "raised"]
                /\ UNCHANGED <<dirs, files, lastCall, nExtract>>
           ELSE IF k < Len(xgen.entries)
           THEN LET e == xgen.entries[k + 1]
                IN  \E r \in {extract_file(dirs, e, io)} :
                    /\ dirs' = r.out.dirs
                    /\ files' = r.out.files
                    /\ lastCall' = [filename |-> e, path |-> r.path, page |-> r.page,
                                    xref |-> r.xref, raised |-> r.out.raised]
                    /\ nExtract' = nExtract + 1
                    /\ xgen' = IF r.out.raised # NoError
                               THEN [xgen EXCEPT !.state = "raised",
                                                 !.attempted = Append(@, e)]
                               ELSE [xgen EXCEPT !.attempted = Append(@, e),
                                                 !.acked = Append(@, e)]
           ELSE /\ xgen' = [xgen EXCEPT !.state = "done"]
                /\ UNCHANGED <<dirs, files, lastCall, nExtract>>

\* GeneratorProxy.__next__ on the extraction stream.
PullExtract(io) ==
    /\ xgen.state \in {"running", "done", "raised"}
    /\ IF ~Alive(procs, xgen.proc)
       THEN /\ lastOp' = [op |-> "next_extract", raised |-> IPCError,
                          result |-> "none"]
            /\ UNCHANGED <<dirs, files, lastCall, nExtract, xgen>>
       ELSE IF xgen.state = "running"
       THEN /\ _extract_pages_next(io)
            /\ lastOp' = IF xgen'.state = "done"
                         THEN [op |-> "next_extract", raised |-> StopIteration,
                               result |-> "none"]
                         ELSE IF xgen'.state = "raised"
                         THEN [op |-> "next_extract",
                               raised |-> IF NotStarted /\ FitzWorker_init # NoError
                                          THEN FitzWorker_init
                                          ELSE lastCall'.raised,
                               result |-> "none"]
                         ELSE [op |-> "next_extract", raised |-> NoError,
                               result |-> "element"]
       ELSE /\ lastOp' = [op |-> "next_extract", raised |-> StopIteration,
                          result |-> "none"]
            /\ UNCHANGED <<dirs, files, lastCall, nExtract, xgen>>
    /\ UNCHANGED threadVars
    /\ UNCHANGED <<doc, readable, prefs, gen, pg, extension, complex_doc, yielded, probed>>
    /\ UNCHANGED <<facade, has_mgr, mgrProc, procs, genProc>>

\* extract answering whether the stream gave more than one result.
extract_return_more_than_one(output) == IF Len(output) > 1 THEN "True" ELSE "False"

\* FitzArchive.extract: len(output) > 0
extract_return(output) == IF Len(output) > 0 THEN "True" ELSE "False"

\* FitzArchive.extract(filename, Dest): the directory is created, a stream
\* over [filename] is requested from the manager and drained by list(), and
\* the stream is let go of.  list() ends with the one name yielded, or with
\* the exception that extract_file raised.
Extract(filename, io) ==
    /\ facade = "built"
    /\ has_mgr \/ CanStart
    /\ nExtract < MaxAttempts
    /\ io = "ok" \/ Contains(filename, XREF_DELIMITER)
    /\ IF Alive(mgr.procs, mgr.proc) /\ FitzWorker_init # NoError
       THEN /\ dirs' = _create_directory(dirs)
            /\ has_mgr' = TRUE
            /\ mgrProc' = mgr.proc
            /\ procs' = Sweep(mgr.procs, {mgrProc', genProc, xgen.proc})
            /\ lastOp' = [op |-> "extract", raised |-> FitzWorker_init,
                          result |-> "none"]
            /\ UNCHANGED <<files, lastCall, nExtract>>
       ELSE IF Alive(mgr.procs, mgr.proc)
       THEN \E r \in {extract_file(_create_directory(dirs), filename, io)} :
            LET output == IF r.out.raised = NoError THEN <<filename>> ELSE <<>>
            IN  /\ dirs' = r.out.dirs
                /\ files' = r.out.files
                /\ lastCall' = [filename |-> filename, path |-> r.path,
                                page |-> r.page, xref |-> r.xref,
                                raised |-> r.out.raised]
                /\ nExtract' = nExtract + 1
                /\ has_mgr' = TRUE
                /\ mgrProc' = mgr.proc
                /\ procs' = Sweep(mgr.procs, {mgrProc', genProc, xgen.proc})
                /\ lastOp' = IF r.out.raised # NoError
                             THEN [op |-> "extract", raised |-> r.out.raised,
                                   result |-> "none"]
                             ELSE [op |-> "extract", raised |-> NoError,
                                   result |-> extract_return(output)]
       ELSE /\ dirs' = _create_directory(dirs)
            /\ lastOp' = [op |-> "extract", raised |-> IPCError, result |-> "none"]
            /\ UNCHANGED <<files, lastCall, nExtract, has_mgr, mgrProc, procs>>
    /\ UNCHANGED threadVars
    /\ UNCHANGED <<doc, readable, prefs, gen, pg, extension, complex_doc, yielded, probed,
                   facade, genProc, xgen>>

\* The caller lets go of the extraction stream without pulling further.
DropExtract ==
    /\ xgen.state \in {"running", "done", "raised"}
    /\ xgen' = [xgen EXCEPT !.state = "abandoned", !.proc = 0]
    /\ procs' = Sweep(procs, {mgrProc, genProc})
    /\ UNCHANGED <<facade, has_mgr, mgrProc, genProc, lastOp>>
    /\ UNCHANGED workerVars
    /\ UNCHANGED threadVars

\* The server process is killed or crashes.
ProcessDies ==
    \E p \in DOMAIN procs :
        /\ procs[p] = "alive"
        /\ procs' = [procs EXCEPT ![p] = "dead"]
        /\ UNCHANGED <<facade, has_mgr, mgrProc, genProc, xgen, lastOp>>
        /\ UNCHANGED workerVars
        /\ UNCHANGED threadVars

InitSession ==
    /\ doc \in SessionDocs
    /\ readable = TRUE
    /\ prefs = TRUE
    /\ gen = "none"
    /\ pg = 0
    /\ extension = None
    /\ complex_doc = FALSE
    /\ yielded = <<>>
    /\ probed = <<>>
    /\ dirs = {}
    /\ files = <<>>
    /\ lastCall = NoCall
    /\ nExtract = 0
    /\ facade = "unbuilt"
    /\ has_mgr = FALSE
    /\ mgrProc = 0
    /\ procs = <<>>
    /\ genProc = 0
    /\ xgen = NoStream
    /\ lastOp = NoOp
    /\ attr = 0
    /\ wranglers = <<>>
    /\ thread = [t \in Threads |-> IdleThread]
    /\ served = <<>>

NextSession ==
    \/ Construct
    \/ Close
    \/ IterContents
    \/ PullListing
    \/ \E entries \in EntryLists : IterExtract(entries)
    \/ \E io \in IOOutcomes : PullExtract(io)
    \/ DropExtract
    \/ ProcessDies

SpecSession == InitSession /\ [][NextSession]_vars

\* A name of neither form.
OtherName == <<"c", "o", "v", "e", "r", ".", "p", "n", "g">>

\* The names a caller hands to extract: those of SessionNames, the second
\* page in extracted form, and a name of neither form.
ExtractNames == SessionNames \cup {ExtractedName(1, FirstXref(2), JPG), OtherName}

\* The session of a caller who extracts single files.
NextExtract ==
    \/ Construct
    \/ Close
    \/ \E filename \in ExtractNames, io \in IOOutcomes : Extract(filename, io)

SpecExtract == InitSession /\ [][NextExtract]_vars

\* The file of the document is removed, or replaced by one fitz cannot open.
FileLost ==
    /\ readable
    /\ readable' = FALSE
    /\ UNCHANGED <<doc, prefs, gen, pg, extension, complex_doc, yielded, probed,
                   dirs, files, lastCall, nExtract>>
    /\ UNCHANGED sessionVars
    /\ UNCHANGED threadVars

\* The session on a file that fitz may be unable to open, from the start or
\* from some point on.
InitUnopenable ==
    /\ doc \in SessionDocs
    /\ readable \in BOOLEAN
    /\ prefs = TRUE
    /\ gen = "none"
    /\ pg = 0
    /\ extension = None
    /\ complex_doc = FALSE
    /\ yielded = <<>>
    /\ probed = <<>>
    /\ dirs = {}
    /\ files = <<>>
    /\ lastCall = NoCall
    /\ nExtract = 0
    /\ facade = "unbuilt"
    /\ has_mgr = FALSE
    /\ mgrProc = 0
    /\ procs = <<>>
    /\ genProc = 0
    /\ xgen = NoStream
    /\ lastOp = NoOp
    /\ attr = 0
    /\ wranglers = <<>>
    /\ thread = [t \in Threads |-> IdleThread]
    /\ served = <<>>

NextUnopenable ==
    \/ Construct
    \/ IterContents
    \/ PullListing
    \/ \E entries \in EntryLists : IterExtract(entries)
    \/ PullExtract("ok")
    \/ \E filename \in SessionNames : Extract(filename, "ok")
    \/ FileLost

SpecUnopenable == InitUnopenable /\ [][NextUnopenable]_vars

\* The session of a caller who lets go of listing streams, whenever they
\* like, and goes on with new streams; a listing stream they hold, they
\* keep pulling.
NextAbandon ==
    \/ Construct
    \/ Close
    \/ IterContents
    \/ PullListing
    \/ DropListing
    \/ \E entries \in EntryLists : IterExtract(entries)
    \/ \E io \in IOOutcomes : PullExtract(io)

SpecAbandon == InitSession /\ [][NextAbandon]_vars /\ WF_vars(PullListing)

\* The life of the manager under a caller who lists, closes and lists
\* again, and who keeps pulling on the listing stream they hold.
NextLifecycle ==
    \/ Construct
    \/ Close
    \/ IterContents
    \/ PullListing
    \/ DropListing

SpecLifecycle == InitSession /\ [][NextLifecycle]_vars /\ WF_vars(PullListing)

\* One listing stream, pulled for as long as it gives something, on a server
\* process that stays alive.
InitListing ==
    /\ Init
    /\ prefs = TRUE
    /\ dirs = {}

NextListing ==
    \/ Construct
    \/ (gen = "none" /\ IterContents)
    \/ PullListing

SpecListing == InitListing /\ [][NextListing]_vars /\ WF_vars(PullListing)

(***************************************************************************)
(* Several threads on one FitzArchive.  self._mgr is one attribute of the  *)
(* facade, read, deleted and assigned by every thread without a lock.  The *)
(* FitzProcessWrangler it refers to is a threading.local: each thread that *)
(* touches it gets its own attribute dictionary, filled by a run of        *)
(* __init__ in that thread, which starts a FitzManager of its own.  A      *)
(* wrangler that neither the facade nor a thread's stack refers to is      *)
(* collected, with the managers of all its threads.                        *)
(***************************************************************************)
\* The wranglers something still refers to.
Referenced(a, th) == {a} \cup {th[t].ref : t \in Threads}

\* The server processes of the managers of wrangler w.
ProcsOf(ws, w) == {ws[w][t] : t \in Threads} \ {0}

\* The processes once every unreferenced wrangler is collected.
Collect(ps, ws, a, th) ==
    [p \in DOMAIN ps |->
        IF /\ ps[p] = "alive"
           /\ \E w \in DOMAIN ws : p \in ProcsOf(ws, w) /\ w \notin Referenced(a, th)
        THEN "shutdown"
        ELSE ps[p]]

\* A wrangler that is an ordinary object: the manager started by the first
\* thread serves every thread.
thread_local_mgr_shared(ws, w, t) ==
    IF w \in DOMAIN ws /\ ProcsOf(ws, w) # {}
    THEN [proc |-> CHOOSE p \in ProcsOf(ws, w) : TRUE, fresh |-> FALSE]
    ELSE [proc |-> Len(procs) + 1, fresh |-> TRUE]

\* self.mgr inside a method of the wrangler w (a new one when w is not yet
\* in ws), run by thread t: the manager of that thread's dictionary; when
\* the thread has none yet, __init__ runs in this thread and starts one.
thread_local_mgr(ws, w, t) ==
    IF w \in DOMAIN ws /\ ws[w][t] # 0
    THEN [proc |-> ws[w][t], fresh |-> FALSE]
    ELSE [proc |-> Len(procs) + 1, fresh |-> TRUE]

\* Thread t moves on: its record becomes r, the attribute a, the wranglers
\* ws, the processes ps (before collection).
ThreadStep(t, r, a, ws, ps) ==
    /\ thread' = [thread EXCEPT ![t] = r]
    /\ attr' = a
    /\ has_mgr' = (a # 0)
    /\ wranglers' = ws
    /\ procs' = Collect(ps, ws, a, thread')
    /\ UNCHANGED <<mgrProc, genProc, xgen, lastOp>>
    /\ UNCHANGED workerVars

\* The mgr property, first line: hasattr(self, '_mgr').  The constructor is
\* the first call there is, by the thread that builds the facade.
MgrHasattr(t) ==
    /\ thread[t].pc = "idle"
    /\ facade = "built" \/ (facade = "unbuilt" /\ t = 1)
    /\ ThreadStep(t, [pc |-> IF attr # 0 THEN "mgr_read" ELSE "open_close",
                      ref |-> 0, in_open |-> FALSE, raised |-> NoError],
                  attr, wranglers, procs)
    /\ UNCHANGED <<facade, served>>

\* return self._mgr (in mgr and at the end of _open_doc).
MgrRead(t) ==
    /\ thread[t].pc = "mgr_read"
    /\ IF attr = 0
       THEN ThreadStep(t, [IdleThread EXCEPT !.raised = "AttributeError"],
                       attr, wranglers, procs)
       ELSE ThreadStep(t, [thread[t] EXCEPT !.pc = "call", !.ref = attr],
                       attr, wranglers, procs)
    /\ UNCHANGED <<facade, served>>

\* close, first line: hasattr(self, '_mgr'); called by the thread or by
\* _open_doc.
CloseHasattr(t) ==
    /\ \/ thread[t].pc = "idle" /\ facade = "built"
       \/ thread[t].pc = "open_close"
    /\ LET in_open == thread[t].pc = "open_close"
       IN  ThreadStep(t, [pc |-> IF attr # 0 THEN "close_del"
                                 ELSE IF in_open THEN "construct" ELSE "idle",
                          ref |-> 0, in_open |-> in_open /\ attr # 0,
                          raised |-> NoError],
                      attr, wranglers, procs)
    /\ UNCHANGED <<facade, served>>

\* close, second line: del self._mgr.
CloseDel(t) ==
    /\ thread[t].pc = "close_del"
    /\ IF attr = 0
       THEN ThreadStep(t, [IdleThread EXCEPT !.raised = "AttributeError"],
                       attr, wranglers, procs)
       ELSE ThreadStep(t, [thread[t] EXCEPT
                              !.pc = IF thread[t].in_open THEN "construct" ELSE "idle",
                              !.in_open = FALSE],
                       0, wranglers, procs)
    /\ UNCHANGED <<facade, served>>

\* _open_doc: FitzProcessWrangler(self.archive, ...) is built by thread t.
WranglerInit(t) ==
    /\ thread[t].pc = "construct"
    /\ Len(procs) < MaxThreadProcs
    /\ LET w == Len(wranglers) + 1
           m == thread_local_mgr(wranglers, w, t)
       IN  /\ ThreadStep(t, [thread[t] EXCEPT !.pc = "install", !.ref = w],
                         attr,
                         Append(wranglers, [u \in Threads |-> IF u = t THEN m.proc ELSE 0]),
                         Append(procs, "alive"))
           /\ served' = Append(served, {})
    /\ UNCHANGED facade

\* _open_doc: self._mgr = the wrangler just built.
Install(t) ==
    /\ thread[t].pc = "install"
    /\ ThreadStep(t, [thread[t] EXCEPT !.pc = "mgr_read", !.ref = 0],
                  thread[t].ref, wranglers, procs)
    /\ UNCHANGED <<facade, served>>

\* A method of the wrangler (page_count, iter_contents, extract_pages) run
\* by thread t on the wrangler it has read: the call goes to the manager of
\* this thread.
WranglerCall(t) ==
    /\ thread[t].pc = "call"
    /\ LET w == thread[t].ref
           m == thread_local_mgr(wranglers, w, t)
       IN  /\ m.fresh => Len(procs) < MaxThreadProcs
           /\ ThreadStep(t, IdleThread, attr,
                         [wranglers EXCEPT ![w][t] = m.proc],
                         IF m.fresh THEN Append(procs, "alive") ELSE procs)
           /\ served' = IF m.fresh THEN Append(served, {t})
                        ELSE [served EXCEPT ![m.proc] = @ \cup {t}]
    /\ facade' = "built"

NextThreads ==
    \E t \in Threads :
        \/ MgrHasattr(t)
        \/ MgrRead(t)
        \/ CloseHasattr(t)
        \/ CloseDel(t)
        \/ WranglerInit(t)
        \/ Install(t)
        \/ WranglerCall(t)

SpecThreads == InitSession /\ [][NextThreads]_vars

(***************************************************************************)
(* What the properties below read off a file name and a page.              *)
(***************************************************************************)
\* The name is of the extracted form: it holds the xref delimiter.
IsExtractedForm(name) == Contains(name, XREF_DELIMITER)

\* The name ends with the suffix.
EndsWith(s, suffix) ==
    Len(s) >= Len(suffix) /\ SubSeq(s, Len(s) - Len(suffix) + 1, Len(s)) = suffix

\* The name is of the rendered form.
IsRenderedForm(name) == ~Contains(name, XREF_DELIMITER) /\ EndsWith(name, DOT \o PNG)

\* The number written after "page": the digits up to the first non-digit.
RECURSIVE LeadingDigits(_)
LeadingDigits(s) == IF s = <<>> \/ ~IsDigit(s[1]) THEN <<>>
                    ELSE <<s[1]>> \o LeadingDigits(Tail(s))

PageNumberOf(name) ==
    IF StartsWith(name, PAGE) /\ LeadingDigits(SubSeq(name, 5, Len(name))) # <<>>
    THEN DigitsValue(LeadingDigits(SubSeq(name, 5, Len(name))))
    ELSE -1

\* What follows the last dot of the name.
RECURSIVE ExtensionOf(_)
ExtensionOf(name) == IF name = <<>> THEN <<>>
                     ELSE IF name[Len(name)] = "." THEN <<>>
                     ELSE Append(ExtensionOf(SubSeq(name, 1, Len(name) - 1)), name[Len(name)])

\* The page fails the must-render test: image count # 1 or some text.
FailsMustRenderTest(page) == Len(page.images) # 1 \/ page.textLen > 0

\* The page's single placed image covers the page up to less than 5%.
IsFullPageImage(page) ==
    /\ page.nInfo = 1
    /\ 20 * (page.pageArea - page.imgArea) < page.pageArea
    /\ 20 * (page.imgArea - page.pageArea) < page.pageArea

\* By its own content the page would be extracted.
ExtractableByContent(page) == ~FailsMustRenderTest(page) /\ IsFullPageImage(page)

\* The indices (1-based) of the names listed so far in extracted form.
ExtractedIndices == {k \in 1..Len(yielded) : IsExtractedForm(yielded[k])}

\* The step is a next() that yields a name.
Yields == Len(yielded') = Len(yielded) + 1 /\ SubSeq(yielded', 1, Len(yielded)) = yielded

(***************************************************************************)
(* C1: a fully consumed listing holds exactly page_count names, and the    *)
(* k-th name listed (at any point of the listing) carries page number k.   *)
(***************************************************************************)
C1_ListingComplete ==
    /\ Len(yielded) <= page_count
    /\ \A k \in 1..Len(yielded) : PageNumberOf(yielded[k]) = k
    /\ gen = "done" => Len(yielded) = page_count

C1_Witness == gen = "done" /\ page_count >= 3 /\ Len(yielded) = page_count

(***************************************************************************)
(* C2: decoding a listed extracted-form name the way extract_file does     *)
(* gives back the page index and the xref it was built from.               *)
(***************************************************************************)
C2_RoundTrip ==
    \A k \in ExtractedIndices :
        LET r == extract_file(dirs, yielded[k], "ok")
        IN  /\ r.path = "extract_xref"
            /\ r.page = k - 1
            /\ r.xref = doc[k].images[1]

(***************************************************************************)
(* C3: once _complex_doc is set, every name yielded later in that listing  *)
(* is of the rendered form, and the flag stays set until a new listing     *)
(* starts with a new worker.                                               *)
(***************************************************************************)
C3_ComplexFlagSticky ==
    [][complex_doc =>
          \/ /\ complex_doc'
             /\ Yields => IsRenderedForm(yielded'[Len(yielded')])
             /\ Len(yielded') >= Len(yielded)
          \/ /\ yielded' = <<>>
             /\ pg' = 0]_vars

\* The flag is set and a page that by its own content would be extracted
\* has been listed, after the flag was set, in rendered form.
C3_Witness ==
    /\ complex_doc
    /\ \E k \in 2..Len(yielded) :
          /\ ExtractableByContent(doc[k])
          /\ IsRenderedForm(yielded[k])
          /\ \E i \in 1..(k - 1) : FailsMustRenderTest(doc[i])

(***************************************************************************)
(* C4, as claimed: after any page listed in rendered form, every later     *)
(* page of the listing is in rendered form.                                *)
(***************************************************************************)
C4_AnyRenderedSticky ==
    \A i \in 1..Len(yielded) : \A j \in (i + 1)..Len(yielded) :
        IsRenderedForm(yielded[i]) => IsRenderedForm(yielded[j])

(***************************************************************************)
(* C4, amended: after a page that fails the must-render test (image count  *)
(* # 1 or some text), every later page of the listing is in rendered form. *)
(***************************************************************************)
C4_MustRenderSticky ==
    \A i \in 1..Len(yielded) : \A j \in (i + 1)..Len(yielded) :
        FailsMustRenderTest(doc[i]) => IsRenderedForm(yielded[j])

\* The first page was extracted, the second failed the must-render test,
\* and the third, which by its own content would be extracted, was rendered.
C4_Witness ==
    /\ Len(yielded) = 3
    /\ IsExtractedForm(yielded[1])
    /\ FailsMustRenderTest(doc[2])
    /\ ExtractableByContent(doc[3])
    /\ IsRenderedForm(yielded[3])

ScenarioA ==
    /\ Len(doc) = 3
    /\ doc[1].images = <<42>> /\ doc[1].textLen = 0 /\ doc[1].nInfo = 1
    /\ doc[1].imgArea = doc[1].pageArea /\ doc[1].profile = "jpg"
    /\ \A i \in 2..3 : doc[i].textLen > 0 /\ Len(doc[i].images) = 1

ScenarioAListing ==
    << <<"p", "a", "g", "e", "0", "0", "0", "1", "_", "m", "c", "m", "x", "r", "e", "f",
         "0", "0", "4", "2", ".", "j", "p", "g">>,
       <<"p", "a", "g", "e", "0", "0", "0", "2", ".", "p", "n", "g">>,
       <<"p", "a", "g", "e", "0", "0", "0", "3", ".", "p", "n", "g">> >>

C6_ScenarioA ==
    (ScenarioA /\ gen # "none") =>
        /\ yielded = SubSeq(ScenarioAListing, 1, Len(yielded))
        /\ gen = "done" => yielded = ScenarioAListing
        /\ complex_doc <=> Len(yielded) >= 2

C6_Witness == ScenarioA /\ gen = "done" /\ Len(yielded) = 3 /\ complex_doc

(***************************************************************************)
(* C7, as claimed: the probe runs at most once per listing and only when   *)
(* the first page is classified ExtractableImage, and all extracted-form   *)
(* names of the listing carry the extension of the first one.              *)
(***************************************************************************)
SameExtensionAsFirst ==
    \A i \in ExtractedIndices : \A j \in ExtractedIndices :
        ExtensionOf(yielded[i]) = ExtensionOf(yielded[j])

C8_ProbeFallback ==
    /\ gen # "raised"
    /\ (probed # <<>> /\ doc[probed[1] + 1].profile \notin {"jpg", "png"}) =>
          /\ Len(yielded) > probed[1]
          /\ \A k \in ExtractedIndices : ExtensionOf(yielded[k]) = PNG

\* The probe raised a TypeError on the first extracted page, and a later
\* page holding a jpg image was listed with the extension png.
C8_Witness ==
    \E i \in ExtractedIndices : \E j \in ExtractedIndices :
        /\ i < j
        /\ probed = <<i - 1>>
        /\ doc[i].profile = "TypeError"
        /\ doc[j].profile = "jpg"
        /\ ExtensionOf(yielded[j]) = PNG

(***************************************************************************)
(* C9: extract_file sends a name holding the xref delimiter to             *)
(* extract_xref, with the page taken from the last four characters before  *)
(* the delimiter and the xref from the first four after it, and never to   *)
(* render_page; it sends a rendered-form name to render_page, with the     *)
(* page taken from characters 4..8, and never to extract_xref.  What is    *)
(* written under the name is an image for the first and a pixmap for the   *)
(* second.                                                                 *)
(***************************************************************************)
DelimiterAt(name) == CHOOSE i \in Occurrences(name, XREF_DELIMITER) : TRUE

C9_Dispatch ==
    LET name == lastCall.filename
    IN  /\ (nExtract > 0 /\ IsExtractedForm(name)) =>
              /\ lastCall.path = "extract_xref"
              /\ lastCall.page + 1 =
                    DigitsValue(SubSeq(name, DelimiterAt(name) - 4, DelimiterAt(name) - 1))
              /\ lastCall.xref =
                    DigitsValue(SubSeq(name, DelimiterAt(name) + 8, DelimiterAt(name) + 11))
              /\ \A k \in 1..Len(yielded) : yielded[k] = name => lastCall.page = k - 1
              /\ name \in DOMAIN files => files[name].kind # "pixmap"
        /\ (nExtract > 0 /\ IsRenderedForm(name) /\ StartsWith(name, PAGE)) =>
              /\ lastCall.path = "render_page"
              /\ lastCall.page + 1 = DigitsValue(SubSeq(name, 5, 8))
              /\ \A k \in 1..Len(yielded) : yielded[k] = name => lastCall.page = k - 1
              /\ name \in DOMAIN files =>
                    (files[name].kind = "pixmap" /\ files[name].page = lastCall.page)

\* A listed extracted-form name was extracted and its image written.
C9_Witness ==
    /\ nExtract > 0
    /\ \E k \in ExtractedIndices : k >= 2 /\ yielded[k] = lastCall.filename
    /\ lastCall.path = "extract_xref"
    /\ lastCall.filename \in DOMAIN files
    /\ files[lastCall.filename].kind = "raw"

(***************************************************************************)
(* C10: an extract_file call whose xref is no image of the document raises *)
(* nothing and leaves the file system as it was: no directory made, no     *)
(* file written.                                                           *)
(***************************************************************************)
C10_MissIsNoOp ==
    [][(nExtract' = nExtract + 1
          /\ lastCall'.path = "extract_xref"
          /\ lastCall'.xref \notin ImageXrefs) =>
       (/\ lastCall'.raised = NoError
        /\ dirs' = dirs
        /\ files' = files
        /\ lastCall'.filename \notin DOMAIN files')]_vars

\* An extraction missed, and the destination directory still does not exist.
C10_Witness ==
    /\ nExtract > 0
    /\ lastCall.path = "extract_xref"
    /\ lastCall.xref \notin ImageXrefs
    /\ lastCall.raised = NoError
    /\ dirs = {}
    /\ files = <<>>

(***************************************************************************)
(* C11: after every extraction attempt a file under the destination either *)
(* is absent or holds the complete output: no partial file is left.        *)
(***************************************************************************)
C11_AllOrNothing ==
    \A f \in DOMAIN files : files[f].kind # "partial"

(***************************************************************************)
(* C12: with the preference on and a page rotation of 90, 180 or 270, the  *)
(* file written by extract_xref is the image of the xref transposed by     *)
(* 270, 180 or 90: transpose plus rotation is a multiple of 360.           *)
(***************************************************************************)
\* The last call was an extraction of an image of the document that raised
\* nothing.
ExtractedOk ==
    /\ nExtract > 0
    /\ lastCall.path = "extract_xref"
    /\ lastCall.raised = NoError
    /\ lastCall.xref \in ImageXrefs

LastRotation == doc[PageIndex(lastCall.page)].rotation

C12_CounterRotation ==
    (ExtractedOk /\ prefs /\ LastRotation \in {90, 180, 270}) =>
        /\ lastCall.filename \in DOMAIN files
        /\ files[lastCall.filename].kind = "pil"
        /\ files[lastCall.filename].image = lastCall.xref
        /\ files[lastCall.filename].transpose = (IF LastRotation = 90 THEN 270
                                                 ELSE IF LastRotation = 180 THEN 180
                                                 ELSE 90)
        /\ (files[lastCall.filename].transpose + LastRotation) % 360 = 0

\* Scenario D: a page turned by 90, the preference on, the image written
\* turned by 270.
C12_Witness ==
    /\ ExtractedOk /\ prefs /\ LastRotation = 90
    /\ lastCall.filename \in DOMAIN files
    /\ files[lastCall.filename].transpose = 270

(***************************************************************************)
(* C13: with a page rotation of 0, or with the preference off, the file    *)
(* written by extract_xref holds the bytes of the xref as the library      *)
(* returned them, neither decoded nor encoded again.                       *)
(***************************************************************************)
C13_RawVerbatim ==
    (ExtractedOk /\ (LastRotation = 0 \/ ~prefs)) =>
        /\ lastCall.filename \in DOMAIN files
        /\ files[lastCall.filename] =
              [kind |-> "raw", image |-> lastCall.xref, transpose |-> 0]

\* A turned page extracted with the preference off: the raw bytes.
C13_Witness ==
    /\ ExtractedOk /\ ~prefs /\ LastRotation = 270
    /\ lastCall.filename \in DOMAIN files
    /\ files[lastCall.filename].kind = "raw"

(***************************************************************************)
(* What the properties below read off a stream.                            *)
(***************************************************************************)
IsPrefix(s, t) == Len(s) <= Len(t) /\ SubSeq(t, 1, Len(s)) = s

\* The caller has pulled on the extraction stream until it ended.
StreamEnded == xgen.state \in {"done", "raised"}

(***************************************************************************)
(* C14, as claimed: the extraction stream yields the input file names in   *)
(* input order, each after its own extraction attempt, and a stream that   *)
(* has ended has yielded all of them.                                      *)
(***************************************************************************)
C14_YieldsAllEntries ==
    /\ IsPrefix(xgen.acked, xgen.attempted)
    /\ IsPrefix(xgen.attempted, xgen.entries)
    /\ StreamEnded => xgen.acked = xgen.entries

(***************************************************************************)
(* C14, amended: the names yielded are at every moment the first names of  *)
(* the input, in input order, and each is yielded only once its extraction *)
(* was attempted and raised nothing; a stream that ends with end-of-       *)
(* sequence has yielded every input name; an extraction that raises ends   *)
(* the stream with that error, its name and the names after it not         *)
(* yielded.                                                                *)
(***************************************************************************)
C14_YieldsAttemptedPrefix ==
    /\ IsPrefix(xgen.acked, xgen.attempted)
    /\ IsPrefix(xgen.attempted, xgen.entries)
    /\ xgen.state = "running" => xgen.acked = xgen.attempted
    /\ xgen.state = "done" => xgen.acked = xgen.entries
    /\ xgen.state = "raised" =>
          /\ Len(xgen.attempted) = Len(xgen.acked) + 1
          /\ lastCall.filename = xgen.attempted[Len(xgen.attempted)]
          /\ lastCall.raised # NoError

\* Two different names were asked for and both were yielded, in that order.
C14_Witness ==
    /\ xgen.state = "done"
    /\ Len(xgen.entries) = 2
    /\ xgen.entries[1] # xgen.entries[2]
    /\ xgen.acked = xgen.entries
    /\ xgen.attempted = xgen.entries

(***************************************************************************)
(* C15: extract_file is called only by a pull on the running extraction    *)
(* stream, once per pull and for the first entry not yet attempted, so     *)
(* that after k pulls the first k entries have been attempted and no       *)
(* other; once the stream is abandoned nothing more is attempted.          *)
(***************************************************************************)
C15_LazyExtraction ==
    [][/\ nExtract' # nExtract =>
             /\ nExtract' = nExtract + 1
             /\ lastOp'.op = "next_extract"
             /\ xgen.state = "running"
             /\ Len(xgen.attempted) < Len(xgen.entries)
             /\ lastCall'.filename = xgen.entries[Len(xgen.attempted) + 1]
             /\ xgen'.attempted = Append(xgen.attempted, lastCall'.filename)
       /\ nExtract' = nExtract =>
             /\ files' = files
             /\ \/ xgen'.attempted = xgen.attempted
                \/ xgen'.attempted = <<>> /\ lastOp'.op = "iter_extract"
       /\ xgen.state = "abandoned" /\ xgen'.state = "abandoned" =>
             /\ xgen'.attempted = xgen.attempted
             /\ nExtract' = nExtract
             /\ files' = files]_vars

\* The stream over two names was abandoned after one pull: the first name
\* was extracted, the second never attempted.
C15_Witness ==
    /\ xgen.state = "abandoned"
    /\ Len(xgen.entries) = 2
    /\ xgen.entries[1] # xgen.entries[2]
    /\ xgen.attempted = <<xgen.entries[1]>>
    /\ xgen.acked = <<xgen.entries[1]>>
    /\ xgen.entries[1] \in DOMAIN files
    /\ xgen.entries[2] \notin DOMAIN files
    /\ nExtract = 1

(***************************************************************************)
(* C16: every pull on the listing stream gives one file name or the end    *)
(* of the sequence; a pull that gives a name has classified exactly the    *)
(* page of that name, and no other step classifies a page, so that the     *)
(* pages classified (and the pages probed) are never more than the names   *)
(* given.                                                                  *)
(***************************************************************************)
C16_Streaming ==
    /\ [](/\ pg = Len(yielded)
          /\ \A i \in 1..Len(probed) : probed[i] < Len(yielded))
    /\ [][/\ pg' <= pg + 1
          /\ pg' = pg + 1 <=> Yields
          /\ lastOp'.op = "next" =>
                \/ /\ lastOp'.result = "element"
                   /\ lastOp'.raised = NoError
                   /\ Yields
                   /\ PageNumberOf(yielded'[Len(yielded')]) = pg'
                \/ /\ lastOp'.result = "none"
                   /\ lastOp'.raised = StopIteration
                   /\ yielded' = yielded
                   /\ pg' = pg]_vars

\* Two of three pages were listed, and the third, a full-page image that
\* will need the probe, has not been looked at.
C16_Witness ==
    /\ lastOp.op = "next"
    /\ lastOp.result = "element"
    /\ page_count = 3
    /\ Len(yielded) = 2
    /\ pg = 2
    /\ ExtractableByContent(doc[3])
    /\ ~complex_doc
    /\ probed = <<>>
    /\ extension = None

(***************************************************************************)
(* C17: a listing stream that is pulled again and again on a live server   *)
(* reaches the end of the sequence, having given page_count names; from    *)
(* then on every pull reports the end of the sequence again and gives no   *)
(* name.                                                                   *)
(***************************************************************************)
C17_FiniteSinglePass ==
    /\ (gen = "running") ~>
          (gen = "done" /\ Len(yielded) = page_count /\ lastOp.raised = StopIteration)
    /\ [][gen = "done" =>
             /\ gen' = "done"
             /\ yielded' = yielded
             /\ lastOp'.op = "next"
             /\ lastOp'.result = "none"
             /\ lastOp'.raised = StopIteration]_vars

C17_Witness ==
    /\ genProc # 0
    /\ Alive(procs, genProc)
    /\ gen = "done"
    /\ lastOp = [op |-> "next", raised |-> StopIteration, result |-> "none"]
    /\ page_count >= 2
    /\ Len(yielded) = page_count

(***************************************************************************)
(* C18: a server process that is dead stays dead; a call that goes to a    *)
(* dead process (a request for a stream through the manager, a pull on a   *)
(* stream it served) raises the IPC error and nothing is listed, extracted *)
(* or handed out by it; a new process is started only by a call made when  *)
(* the facade holds no manager, and the facade gives its manager up only   *)
(* in close.                                                               *)
(***************************************************************************)
C18_NoAutoRestart ==
    [][/\ \A p \in DOMAIN procs : procs[p] = "dead" =>
             /\ p \in DOMAIN procs'
             /\ procs'[p] = "dead"
       /\ (lastOp' # lastOp /\ lastOp'.op = "next" /\ ~Alive(procs, genProc)) =>
             lastOp'.raised = IPCError
       /\ (lastOp' # lastOp /\ lastOp'.op = "next_extract" /\ ~Alive(procs, xgen.proc)) =>
             lastOp'.raised = IPCError
       /\ (lastOp' # lastOp /\ lastOp'.op \in {"iter_contents", "iter_extract"}
             /\ has_mgr /\ ~Alive(procs, mgrProc)) =>
             lastOp'.raised = IPCError
       /\ <<gen, pg, yielded>> # <<gen', pg', yielded'>> => Alive(procs', genProc')
       /\ nExtract' # nExtract => Alive(procs, xgen.proc)
       /\ (xgen' # xgen /\ xgen'.state = "running") => Alive(procs', xgen'.proc)
       /\ (has_mgr /\ ~Alive(procs, mgrProc)) =>
             /\ Len(procs') = Len(procs)
             /\ genProc' = genProc
             /\ xgen'.proc \in {xgen.proc, 0}
       /\ Len(procs') > Len(procs) =>
             /\ ~has_mgr
             /\ has_mgr'
             /\ mgrProc' = Len(procs')
             /\ Len(procs') = Len(procs) + 1
       /\ (has_mgr /\ ~has_mgr') => lastOp' = [op |-> "close", raised |-> NoError,
                                              result |-> "deleted"]]_vars

\* The only process started has died, the facade still holds its manager,
\* and the pull on the listing stream it served has failed.
C18_Witness ==
    /\ has_mgr
    /\ procs = <<"dead">>
    /\ mgrProc = 1
    /\ genProc = 1
    /\ lastOp = [op |-> "next", raised |-> IPCError, result |-> "none"]

(***************************************************************************)
(* C19: when the constructor of the facade has returned and no other call  *)
(* has been made, no server process has been started and the facade holds  *)
(* no manager.                                                             *)
(***************************************************************************)
C19_LazyConstruction ==
    lastOp.op = "__init__" => (procs = <<>> /\ ~has_mgr /\ mgrProc = 0)

(***************************************************************************)
(* C20: close raises nothing, and a close on a facade that holds no        *)
(* manager changes nothing: not the facade, not a process, not a stream,   *)
(* not a file.                                                             *)
(***************************************************************************)
C20_CloseIdempotent ==
    /\ [](lastOp.op = "close" => lastOp.raised = NoError)
    /\ [][(~has_mgr /\ lastOp' # lastOp /\ lastOp'.op = "close") =>
             /\ lastOp' = [op |-> "close", raised |-> NoError, result |-> "nothing"]
             /\ UNCHANGED <<facade, has_mgr, mgrProc, procs, genProc, xgen>>
             /\ UNCHANGED workerVars]_vars

\* A second close: the first had deleted the manager and shut its process
\* down, the second found nothing to delete.
C20_Witness ==
    /\ facade = "built"
    /\ ~has_mgr
    /\ mgrProc = 0
    /\ procs = <<"shutdown">>
    /\ lastOp = [op |-> "close", raised |-> NoError, result |-> "nothing"]

(***************************************************************************)
(* C21: a server process whose manager the facade has given up (by close)  *)
(* is eventually not alive any more, whatever streams the caller holds.    *)
(***************************************************************************)
C21_CloseTerminates ==
    \A p \in 1..MaxProcs :
        (p \in DOMAIN procs /\ ~(has_mgr /\ mgrProc = p)) ~>
            (p \in DOMAIN procs /\ procs[p] # "alive")

(***************************************************************************)
(* C22: an operation of the facade issued when close has deleted the       *)
(* manager is served by a manager and a server process that this very      *)
(* operation creates: the process is a new one, it is alive, the facade    *)
(* holds its manager afterwards, and the stream returned lives in it, not  *)
(* in any process that existed before.                                     *)
(***************************************************************************)
FacadeOps == {"iter_contents", "iter_extract"}

C22_ReopenIsNew ==
    [][(facade = "built" /\ ~has_mgr /\ lastOp'.op \in FacadeOps) =>
          /\ Len(procs') = Len(procs) + 1
          /\ has_mgr'
          /\ mgrProc' = Len(procs')
          /\ mgrProc' \notin DOMAIN procs
          /\ Alive(procs', mgrProc')
          /\ lastOp'.raised = NoError
          /\ lastOp'.op = "iter_contents" => genProc' = mgrProc'
          /\ lastOp'.op = "iter_extract" => xgen'.proc = mgrProc']_vars

C22_Witness ==
    /\ lastOp.op \in FacadeOps
    /\ lastOp.raised = NoError
    /\ Len(procs) = 2
    /\ procs[1] = "shutdown"
    /\ mgrProc = 2
    /\ Alive(procs, 2)

(***************************************************************************)
(* C23: the facade never has more than one live server process (one        *)
(* calling thread).                                                        *)
(***************************************************************************)
LiveProcs == {p \in DOMAIN procs : procs[p] = "alive"}

C23_AtMostOneLiveProcess == Cardinality(LiveProcs) <= 1

(***************************************************************************)
(* C24: a pull on a stream only returns an element when the stream belongs *)
(* to the manager the facade holds at the time of the pull; a stream of a  *)
(* manager that close or a re-open has deleted never returns a result.     *)
(***************************************************************************)
C24_DestroyedSessionFails ==
    [][/\ Len(yielded') > Len(yielded) => (has_mgr /\ genProc = mgrProc)
       /\ Len(xgen'.acked) > Len(xgen.acked) =>
              (has_mgr /\ xgen.proc = mgrProc)]_vars

(***************************************************************************)
(* C25: a call of extract leaves the destination directory in place, has   *)
(* the worker extract the one name it was given, and returns True exactly  *)
(* when the stream yielded that one name, which is when the extraction     *)
(* attempt did not raise; when the attempt raises, extract returns nothing *)
(* and raises the same error.                                              *)
(***************************************************************************)
ExtractStep == lastOp'.op = "extract" /\ nExtract' = nExtract + 1

C25_ExtractReturn ==
    [][ExtractStep =>
          /\ Dest \in dirs'
          /\ lastCall'.filename \in ExtractNames
          /\ (lastOp'.result = "True") <=> (lastCall'.raised = NoError)
          /\ lastOp'.result \in {"True", "none"}
          /\ lastOp'.raised = lastCall'.raised]_vars

C25_Witness ==
    /\ lastOp = [op |-> "extract", raised |-> NoError, result |-> "True"]
    /\ lastCall.filename = RenderedName(1)
    /\ lastCall.filename \in DOMAIN files
    /\ nExtract = 1

(***************************************************************************)
(* C26: no server process ever serves calls of two threads, and within one *)
(* wrangler no two threads have the same manager.                          *)
(***************************************************************************)
C26_ThreadIsolation ==
    /\ \A p \in DOMAIN served : Cardinality(served[p]) <= 1
    /\ \A w \in DOMAIN wranglers : \A t, u \in Threads :
           (t # u /\ wranglers[w][t] # 0) => wranglers[w][t] # wranglers[w][u]

C26_Witness ==
    \E w \in DOMAIN wranglers :
        /\ wranglers[w][1] # 0
        /\ wranglers[w][2] # 0
        /\ served[wranglers[w][1]] = {1}
        /\ served[wranglers[w][2]] = {2}
        /\ Alive(procs, wranglers[w][1])
        /\ Alive(procs, wranglers[w][2])

(***************************************************************************)
(* C27: letting go of a listing stream of the manager the facade holds,    *)
(* at any point of the listing, ends no server process; the process of the *)
(* manager the facade holds is alive as long as the facade holds it; a     *)
(* later iter_contents or iter_extract on the facade is served by that same*)
(* process, without a new one being started; no call fails for want of a   *)
(* process; every pull on a running extraction stream yields the next name *)
(* or ends the stream; and a listing stream that is held moves on from     *)
(* every point it is at (to the next name, its end, or a new listing).     *)
(***************************************************************************)
C27_AbandonKeepsProcess ==
    /\ [][/\ (has_mgr /\ genProc = mgrProc /\ genProc' = 0) =>
                (procs' = procs /\ Alive(procs', mgrProc'))
          /\ has_mgr' => Alive(procs', mgrProc')
          /\ lastOp'.raised # IPCError
          /\ (has_mgr /\ lastOp'.op \in FacadeOps /\ lastOp' # lastOp) =>
                /\ Len(procs') = Len(procs)
                /\ mgrProc' = mgrProc
                /\ lastOp'.raised = NoError
                /\ lastOp'.op = "iter_contents" => genProc' = mgrProc
                /\ lastOp'.op = "iter_extract" => xgen'.proc = mgrProc
          /\ (xgen.state = "running" /\ lastOp'.op = "next_extract" /\ xgen' # xgen) =>
                \/ xgen'.state \in {"done", "raised"}
                \/ Len(xgen'.acked) = Len(xgen.acked) + 1]_vars
    /\ \A k \in 0..MaxPages :
          (genProc # 0 /\ gen = "running" /\ Len(yielded) = k) ~>
             (genProc = 0 \/ gen # "running" \/ Len(yielded) # k)

C27_Witness ==
    /\ gen = "running"
    /\ Len(yielded) = 1
    /\ genProc = 0
    /\ xgen.state = "done"
    /\ Len(xgen.acked) = 2
    /\ has_mgr
    /\ xgen.proc = mgrProc
    /\ procs = <<"alive">>

(***************************************************************************)
(* C28: a listing never ends with an exception: whatever fitz raises while *)
(* a page is classified, the generator yields a name for that page and     *)
(* goes on, so a finished listing has a name for every page.               *)
(***************************************************************************)
C28_ListingSurvivesFaults ==
    /\ gen # "raised"
    /\ gen = "done" => Len(yielded) = page_count

(***************************************************************************)
(* C29: a call of extract for the name that the call before it extracted   *)
(* leaves the file of that name as the first call left it.                 *)
(***************************************************************************)
C29_ExtractIdempotent ==
    [][(/\ ExtractStep
        /\ lastOp = [op |-> "extract", raised |-> NoError, result |-> "True"]
        /\ lastCall'.filename = lastCall.filename
        /\ lastCall.filename \in DOMAIN files) =>
          /\ lastCall.filename \in DOMAIN files'
          /\ files'[lastCall.filename] = files[lastCall.filename]]_vars

(***************************************************************************)
(* C30: while fitz cannot open the file, every call that has to open it    *)
(* ends with the error of fitz.open: the constructor gives no facade, and  *)
(* leaves no manager, no live process, no name and no file; iter_contents  *)
(* and extract raise, return no stream and write no file; the first pull   *)
(* on an extraction stream raises, yields no name and writes no file.      *)
(* Names and files only come from streams whose worker had opened the      *)
(* document before.                                                        *)
(***************************************************************************)
OpenError == "FileDataError"

C30_UnopenableDocument ==
    [][/\ facade' = "failed" =>
             /\ lastOp'.raised = OpenError
             /\ yielded' = <<>> /\ files' = <<>>
             /\ ~has_mgr' /\ genProc' = 0 /\ xgen' = NoStream
             /\ \A p \in DOMAIN procs' : procs'[p] # "alive"
       /\ ~readable =>
             /\ (facade = "unbuilt" /\ facade' # "unbuilt") => facade' = "failed"
             /\ (lastOp'.op \in {"iter_contents", "extract"} /\ lastOp' # lastOp) =>
                   /\ lastOp'.raised = OpenError
                   /\ lastOp'.result = "none"
                   /\ UNCHANGED <<gen, yielded, genProc, files, xgen>>
             /\ (NotStarted /\ lastOp'.op = "next_extract") =>
                   /\ lastOp'.raised = OpenError
                   /\ xgen'.state = "raised"
                   /\ xgen'.acked = <<>>
                   /\ files' = files
             /\ files' # files => (xgen.state = "running" /\ ~NotStarted)
             /\ yielded' # yielded => (gen = "running" /\ genProc # 0)]_vars

C30_Witness ==
    /\ ~readable
    /\ facade = "built"
    /\ xgen.state = "raised"
    /\ xgen.attempted = <<>>
    /\ lastOp = [op |-> "next_extract", raised |-> OpenError, result |-> "none"]
    /\ files = <<>>

(***************************************************************************)
(* The FitzWorker objects there are in a server process.  Each registered  *)
(* callable builds one of its own: the one of _count_pages is garbage when *)
(* the call returns; the one of _list_pages is held by the generator it    *)
(* returned, until the generator ends or its proxy is let go of; the one   *)
(* of _extract_pages is a local of the generator, from its first next()    *)
(* until it ends or its proxy is let go of.                                *)
(***************************************************************************)
WorkersIn(p) ==
    (IF genProc = p /\ gen = "running" THEN {"_list_pages"} ELSE {})
    \cup (IF xgen.proc = p /\ xgen.state = "running" /\ ~NotStarted
          THEN {"_extract_pages"} ELSE {})

(***************************************************************************)
(* C31: a server process never holds more than one FitzWorker, that is,    *)
(* more than one open document, at a time.                                 *)
(***************************************************************************)
C31_OneWorkerPerProcess ==
    \A p \in DOMAIN procs : Cardinality(WorkersIn(p)) <= 1

\* Maximum DPI for rendering.
PDF_RENDER_DPI_MAX == 72 * 10

\* Values a rendering resolution set from outside can take.
RenderDPIs == {PDF_RENDER_DPI_DEF, PDF_RENDER_DPI_MAX}

(***************************************************************************)
(* C32: whatever rendering resolution is configured, a page written by the *)
(* render path is rasterized at that resolution.                           *)
(***************************************************************************)
C32_RenderAtConfiguredDPI ==
    \A renderDPI \in RenderDPIs :
        (lastCall.path = "render_page" /\ lastCall.raised = NoError) =>
            files[lastCall.filename].dpi = renderDPI

(***************************************************************************)
(* Documents of more than 9999 pages.  Listing such a document from its    *)
(* first page is a run of as many steps, so the listing is taken up after  *)
(* LargeStart pages: the pages before are all of one kind (full-page       *)
(* images, or pages with text), for which the state iter_contents is in    *)
(* after n pages is known in closed form.                                  *)
(***************************************************************************)
LargeStart == 10000

LargeTail == 4

\* The last pages: full-page images, images of 40% of the page, or the two
\* in turn.
LargeTails ==
    {[i \in 1..LargeTail |-> IF (i + odd) % 2 < full THEN FullPage(0, "jpg")
                             ELSE Kind(1, 0, 1, 40, 0, "jpg")] :
        odd \in {0, 1}, full \in {1, 2}}
    \cup {[i \in 1..LargeTail |-> Kind(1, 0, 1, 40, 0, "jpg")]}

LargeDocs ==
    {MakeDoc([i \in 1..(LargeStart + LargeTail) |->
                 IF i <= LargeStart THEN k ELSE tail[i - LargeStart]]) :
        k \in {FullPage(0, "jpg"), Kind(1, 3, 1, 100, 0, "jpg")},
        tail \in LargeTails}

\* The pages before page n + 1 have text.
TextBefore(d, n) == n > 0 /\ d[1].textLen > 0

\* What iter_contents has yielded after n pages that are all like the first.
ListedSoFar(d, n) ==
    [k \in 1..n |-> IF d[1].textLen > 0 THEN RenderedName(k - 1)
                    ELSE ExtractedName(k - 1, d[k].images[1], ExtOf(d[1].profile))]

\* The iter_contents generator of a new FitzWorker after n next().
InitLarge ==
    /\ doc \in LargeDocs
    /\ readable = TRUE
    /\ prefs = TRUE
    /\ gen = "running"
    /\ pg = LargeStart
    /\ extension = IF TextBefore(doc, LargeStart) THEN None ELSE ExtOf(doc[1].profile)
    /\ complex_doc = TextBefore(doc, LargeStart)
    /\ yielded = ListedSoFar(doc, LargeStart)
    /\ probed = IF TextBefore(doc, LargeStart) THEN <<>> ELSE <<0>>
    /\ dirs = {Dest}
    /\ files = <<>>
    /\ lastCall = NoCall
    /\ nExtract = 0
    /\ facade = "unbuilt"
    /\ has_mgr = FALSE
    /\ mgrProc = 0
    /\ procs = <<>>
    /\ genProc = 0
    /\ xgen = NoStream
    /\ lastOp = NoOp
    /\ attr = 0
    /\ wranglers = <<>>
    /\ thread = [t \in Threads |-> IdleThread]
    /\ served = <<>>

\* The names listed since.
ListedSince == {yielded[k] : k \in (LargeStart + 1)..Len(yielded)}

NextLarge ==
    \/ Next_iter_contents
    \/ \E filename \in ListedSince : ExtractFile(filename, "ok")

SpecLarge == InitLarge /\ [][NextLarge]_vars

\* On the documents of a few pages, the closed form is the state of the
\* listing after pg pages like the first.
ListedSoFarIsListing ==
    (/\ gen = "running"
     /\ pg > 0
     /\ \A i \in 1..pg : doc[i].textLen = doc[1].textLen /\ Len(doc[i].images) = 1
                          /\ doc[i].nInfo = 1 /\ doc[i].imgArea = doc[i].pageArea
                          /\ doc[i].profile = doc[1].profile)
    => /\ yielded = ListedSoFar(doc, pg)
       /\ complex_doc = TextBefore(doc, pg)
       /\ probed = (IF TextBefore(doc, pg) THEN <<>> ELSE <<0>>)
       /\ extension = (IF TextBefore(doc, pg) THEN None ELSE ExtOf(doc[1].profile))

(***************************************************************************)
(* C33: extract_file called with a listed name of the rendered form takes  *)
(* the render path for the page the name was listed for, and the pixmap    *)
(* written under the name is that page, whatever the page number.          *)
(***************************************************************************)
C33_RenderedNameDecodes ==
    \A k \in 1..Len(yielded) :
        (lastCall.filename = yielded[k] /\ IsRenderedForm(yielded[k])) =>
            /\ lastCall.path = "render_page"
            /\ lastCall.page = k - 1
            /\ lastCall.raised = NoError =>
                   (files[yielded[k]].kind = "pixmap" /\ files[yielded[k]].page = k - 1)

\* The page has one image placed, whose area differs from the page's by
\* exactly 5% of the page's area, or the page has no area.
AtFivePercent(page) ==
    /\ page.nInfo = 1
    /\ \/ 20 * (page.pageArea - page.imgArea) = page.pageArea
       \/ 20 * (page.imgArea - page.pageArea) = page.pageArea
       \/ page.pageArea = 0

(***************************************************************************)
(* C34: a page whose image is smaller or larger than the page by exactly   *)
(* 5% of the page area, and a page of no area, are listed in rendered      *)
(* form.                                                                   *)
(***************************************************************************)
C34_StrictAbsoluteTest ==
    \A k \in 1..Len(yielded) : AtFivePercent(doc[k]) => IsRenderedForm(yielded[k])

\* An image 5% smaller, an image 5% larger and a page of no area, none with
\* text, all listed in rendered form with the flag unset.
C34_Witness ==
    /\ Len(yielded) = 3
    /\ ~complex_doc
    /\ 20 * (doc[1].pageArea - doc[1].imgArea) = doc[1].pageArea /\ doc[1].pageArea > 0
    /\ 20 * (doc[2].imgArea - doc[2].pageArea) = doc[2].pageArea /\ doc[2].pageArea > 0
    /\ doc[3].pageArea = 0
    /\ \A k \in 1..3 : doc[k].nInfo = 1 /\ IsRenderedForm(yielded[k])

(***************************************************************************)
(* C35: a page with one image and no text that fails the full-page-image   *)
(* test (not one placement, or an area too different) is listed in         *)
(* rendered form and leaves _complex_doc unset; and a page that satisfies  *)
(* both tests is listed in extracted form when no page before it failed    *)
(* the must-render test, whatever pages before it failed the other test.   *)
(***************************************************************************)
C35_FullPageTestLeavesFlag ==
    [][(Yields /\ ~complex_doc) =>
          /\ (~FailsMustRenderTest(doc[pg + 1]) /\ ~IsFullPageImage(doc[pg + 1])) =>
                 /\ IsRenderedForm(yielded'[Len(yielded')])
                 /\ ~complex_doc'
                 /\ extension' = extension
          /\ \A k \in 1..Len(yielded') :
                 (/\ ExtractableByContent(doc[k])
                  /\ \A i \in 1..(k - 1) : ~FailsMustRenderTest(doc[i]))
                 => IsExtractedForm(yielded'[k])]_vars

\* Page 1 has an image of 40% of the page and is rendered, page 2 is a
\* full-page image and is extracted, and so is page 3.
C35_Witness ==
    /\ Len(yielded) = 3
    /\ \A k \in 1..3 : ~FailsMustRenderTest(doc[k])
    /\ doc[1].nInfo = 1 /\ ~IsFullPageImage(doc[1]) /\ IsRenderedForm(yielded[1])
    /\ \A k \in 2..3 : ExtractableByContent(doc[k]) /\ IsExtractedForm(yielded[k])
    /\ ~complex_doc

\* What a listing of the document from page k on is by the content of the
\* pages alone, for a worker whose flag and extension are as given.
RECURSIVE ListingOf(_, _, _)
ListingOf(k, flag, ext) ==
    IF k > Len(doc) THEN <<>>
    ELSE IF flag \/ FailsMustRenderTest(doc[k])
    THEN <<RenderedName(k - 1)>> \o ListingOf(k + 1, TRUE, ext)
    ELSE IF ~IsFullPageImage(doc[k])
    THEN <<RenderedName(k - 1)>> \o ListingOf(k + 1, FALSE, ext)
    ELSE LET e == IF ext = None THEN _check_image_type(k - 1).extension ELSE ext
         IN  <<ExtractedName(k - 1, doc[k].images[1], e)>> \o ListingOf(k + 1, FALSE, e)

FreshListing == ListingOf(1, FALSE, None)

(***************************************************************************)
(* C36: whatever was listed, abandoned or extracted before, the names a    *)
(* listing has yielded are the first names of the one sequence that the    *)
(* document determines, and a listing that has ended has yielded all of    *)
(* it.                                                                     *)
(***************************************************************************)
C36_ListingDeterministic ==
    [][(yielded' # yielded \/ gen' # gen) =>
          /\ IsPrefix(yielded', FreshListing)
          /\ gen' = "done" => yielded' = FreshListing]_vars

\* page0003.png was extracted, a name that only a listing gives that has
\* reached page 3, and so has gone through page 2, whose text set the flag;
\* the listing now running has yielded one name, in extracted form.
C36_Witness ==
    /\ gen = "running" /\ Len(yielded) = 1
    /\ Len(doc) = 3 /\ doc[2].textLen > 0
    /\ lastCall.filename = RenderedName(2) /\ lastCall.filename \notin ExtraNames
    /\ IsExtractedForm(yielded[1])
    /\ ~complex_doc

\* The name extract was called with has the extracted form and its xref is
\* no image of the document.
ExtractionMiss == lastCall'.path = "extract_xref" /\ lastCall'.xref \notin ImageXrefs

\* The name extract was called with has neither form.
NeitherForm ==
    /\ ~Contains(lastCall'.filename, XREF_DELIMITER)
    /\ ~StartsWith(lastCall'.filename, PAGE)

(***************************************************************************)
(* C37: a call of extract with a name whose xref is no image, or with a    *)
(* name of neither form, writes no file, raises nothing and returns True.  *)
(***************************************************************************)
C37_ReturnIgnoresFile ==
    [][(ExtractStep /\ (ExtractionMiss \/ NeitherForm)) =>
          /\ lastCall'.raised = NoError
          /\ lastOp' = [op |-> "extract", raised |-> NoError, result |-> "True"]
          /\ files' = files]_vars

\* Two calls of extract, the second one a miss that returned True, and no
\* file in the destination directory.
C37_Witness ==
    /\ nExtract = 2
    /\ lastOp = [op |-> "extract", raised |-> NoError, result |-> "True"]
    /\ lastCall.path = "extract_xref" /\ lastCall.xref \notin ImageXrefs
    /\ Dest \in dirs
    /\ files = <<>>

(***************************************************************************)
(* C38: under every interleaving of two threads in mgr, _open_doc and      *)
(* close, no thread finds the _mgr attribute gone between its hasattr test *)
(* and its read or its del, and the close at the start of _open_doc never  *)
(* deletes a wrangler (one that another thread has installed since this    *)
(* thread found none).                                                     *)
(***************************************************************************)
C38_RaceFree ==
    [][/\ \A t \in Threads : thread'[t].raised # "AttributeError"
       /\ \A t \in Threads :
              ~(/\ thread[t].pc = "close_del" /\ thread[t].in_open
                /\ thread'[t].pc = "construct"
                /\ attr # 0 /\ attr' = 0)]_vars

(***************************************************************************)
(* C39: when a thread's call of close deletes the _mgr attribute, the       *)
(* server processes that the other threads have under that wrangler stay   *)
(* alive.                                                                  *)
(***************************************************************************)
C39_CloseIsPerThread ==
    [][\A t \in Threads :
          (/\ thread[t].pc = "close_del" /\ ~thread[t].in_open
           /\ thread'[t].pc = "idle" /\ thread'[t].raised = NoError
           /\ attr # 0 /\ attr' = 0) =>
              \A u \in Threads \ {t} :
                  (wranglers[attr][u] # 0 /\ Alive(procs, wranglers[attr][u])) =>
                      Alive(procs', wranglers[attr][u])]_vars

(***************************************************************************)
(* C40: the names of one listing are pairwise distinct, and so are their   *)
(* page number fields alone (the k-th name carries the number k), also     *)
(* past page 9999.                                                         *)
(***************************************************************************)
C40_NamesDistinct ==
    \* the names listed up to where the listing is taken up
    /\ Cardinality({yielded[k] : k \in 1..Len(yielded)}) = Len(yielded)
    /\ \A k \in 1..Len(yielded) : PageNumberOf(yielded[k]) = k
    \* every name listed from there on
    /\ [][Yields =>
             /\ \A k \in 1..Len(yielded) : yielded[k] # yielded'[Len(yielded')]
             /\ PageNumberOf(yielded'[Len(yielded')]) = Len(yielded')]_vars

\* Page 10000 was listed in extracted form and page 10001 is listed in
\* rendered form.
C40_Witness ==
    /\ Len(yielded) = LargeStart + 1
    /\ Len(yielded) > 10000
    /\ IsExtractedForm(yielded[Len(yielded) - 1])
    /\ IsRenderedForm(yielded[Len(yielded)])
    /\ PageNumberOf(yielded[Len(yielded)]) = Len(yielded)

====
